---- MODULE Spec2Model ----
(***************************************************************************)
(* Session and credential cache subsystem of the AIDA chat platform:       *)
(* the durable session store (mongodb_manager.py), the restoration         *)
(* matcher, the in-memory agent cache and the rate limiters of             *)
(* aida_api_server.py.                                                     *)
(*                                                                         *)
(* Time is in seconds.  Strings that the code normalises or concatenates   *)
(* (URLs, usernames, user agents, addresses) are sequences of one-letter   *)
(* strings, so that lower(), rstrip('/') and f-string concatenation are    *)
(* computed and not assumed.  sha256/md5 are modelled as collision-free    *)
(* tagged values.  uuid4() returns a value never returned before.          *)
(***************************************************************************)
EXTENDS Integers, Sequences, FiniteSets, TLC

VARIABLES
    now,                \* the wall clock read by datetime.now()
    ticks,              \* number of clock advances so far (bounds the run)
    nreq,               \* number of requests handled so far (bounds the run)
    uuid_next,          \* next value uuid4() hands out for a session id
    issued,             \* history: the session ids create_session has returned
    users,              \* db.users: set of account documents (auth_manager.py)
    user_sessions,      \* db.user_sessions: set of login session documents
    secret_next,        \* next value the secrets module hands out
    auth_history,       \* history: password changes, admin logins, logouts
    msg_next,           \* next value uuid4() hands out for a message id
    sessions,           \* db.sessions: set of session documents
    messages,           \* db.chat_messages: sequence of message documents
    active_agents,      \* active_agents: session_id -> agent (credentials it was built with)
    rate_limits,        \* app.rate_limits: client_ip -> list of timestamps
    lead_rate_limits,   \* app.lead_rate_limits: client_ip -> list of timestamps
    mocxha_credentials, \* users.mocxha_credentials: platform user -> saved credentials
    decisions,          \* history: (client_ip, class) -> the decisions of that rate limiter, in order
    req,                \* per worker thread: the request it is in the middle of
    last                \* the request handled by the last step and its response

vars == << users, user_sessions, secret_next, auth_history, now, ticks, nreq, uuid_next, issued,
           msg_next, sessions, messages, active_agents,
           rate_limits,
           lead_rate_limits, mocxha_credentials, decisions, req, last >>

(* the state of the account manager, and the state of everything else but the
   request counter and the last response *)
auth_vars == << users, user_sessions, secret_next, auth_history >>

platform_vars == << now, ticks, uuid_next, issued, msg_next, sessions, messages, active_agents,
                    rate_limits, lead_rate_limits, mocxha_credentials, decisions, req >>

-----------------------------------------------------------------------------
(* Bounds of the model *)

MaxTicks == 2
MaxRequests == 4
MaxOwnerRequests == 4
MaxRestoreRequests == 3
MaxSweepRequests == 5
MaxLimiterRequests == 12
MaxThreadRequests == 4
MaxRecoveryRequests == 12
MaxLeadRequests == 6
MaxInactiveRequests == 4
MaxMatcherRequests == 4
MaxStepRequests == 4
MaxInitRaceRequests == 4
MaxRetryRequests == 3
MaxBootstrapRequests == 5
MaxPasswordRequests == 5
MaxAdminRequests == 5
MaxRaceRequests == 4
MaxValidationInits == 2
MaxValidationChats == 4
MaxValidationRequests == 12

(* Program constants *)

FreshnessDays == 30
SecondsPerDay == 86400
ChatLimit == 10
ChatWindow == 60
LeadLimit == 5
LeadWindow == 300
MaxTextLen == 2000
SessionTTLDays == 7
MaxRetries == 3

None == 0                               \* no session id
NoUser == "none"                        \* user_id None
NoSession == [ session_id |-> None ]    \* get_session found nothing
NoCredentials == [ username |-> << >> ] \* no saved mocxha_credentials
GOOGLE_API_KEY == "configured-google-api-key"

-----------------------------------------------------------------------------
(* Strings *)

Lower(c) == CASE c = "A" -> "a"
              [] c = "U" -> "u"
              [] OTHER -> c

LowerStr(s) == [i \in 1..Len(s) |-> Lower(s[i])]

RECURSIVE RStripSlash(_)
RStripSlash(s) ==
    IF s # << >> /\ s[Len(s)] = "/" THEN RStripSlash(SubSeq(s, 1, Len(s) - 1)) ELSE s

(* _generate_user_identifier: sha256(lower(username) + "@" + url.rstrip('/').lower()) *)
GenerateUserIdentifier(username, erpnext_url) ==
    << "sha256", LowerStr(username) \o << "@" >> \o LowerStr(RStripSlash(erpnext_url)) >>

(* _hash_credential *)
HashCredential(credential) == << "sha256", credential >>

(* _generate_browser_fingerprint: md5(user_agent + ":" + ip_address) *)
GenerateBrowserFingerprint(user_agent, ip_address) ==
    << "md5", user_agent \o << ":" >> \o ip_address >>

-----------------------------------------------------------------------------
(* Inputs *)

(* (erpnext_url, username) pairs: Alice and AliceAgain are one tenant written in
   two ways, Bob is another user of the same endpoint *)
Alice == << << "a" >>, << "u" >> >>
AliceAgain == << << "A", "/" >>, << "U" >> >>
Bob == << << "a" >>, << "v" >> >>
Passwords == { "p1", "p2" }
UserAgents == { << "m" >> }
Here == << "1" >>
There == << "2" >>
PlatformUsers == { "acct1" }
Threads == { "t1", "t2" }

-----------------------------------------------------------------------------
(* Session store: mongodb_manager.py *)

SessionIds == { s.session_id : s \in sessions }

GetSession_AnyRecord(sid) ==
    IF \E s \in sessions : s.session_id = sid
    THEN CHOOSE s \in sessions : s.session_id = sid
    ELSE NoSession

(* get_session: only an active document is returned *)
GetSession(sid) ==
    IF \E s \in sessions : s.session_id = sid /\ s.is_active
    THEN CHOOSE s \in sessions : s.session_id = sid /\ s.is_active
    ELSE NoSession

NewSessionDoc(sid, erpnext_url, username, password, user_agent, ip_address, user_id) ==
    [ session_id          |-> sid,
      user_id             |-> user_id,
      user_identifier     |-> GenerateUserIdentifier(username, erpnext_url),
      erpnext_url         |-> erpnext_url,
      username            |-> username,
      password_hash       |-> HashCredential(password),
      google_api_key_hash |-> HashCredential(GOOGLE_API_KEY),
      site_base_url       |-> erpnext_url,
      last_accessed       |-> now,
      browser_fingerprint |-> GenerateBrowserFingerprint(user_agent, ip_address),
      is_active           |-> TRUE ]

(* create_session: the store after the insert *)
CreateSession(store, sid, erpnext_url, username, password, user_agent, ip_address, user_id) ==
    store \cup { NewSessionDoc(sid, erpnext_url, username, password,
                               user_agent, ip_address, user_id) }

CutoffDate(days) == now - days * SecondsPerDay

(* find_one(filter, sort=[("last_accessed", -1)]): any document of the
   filtered set with the greatest last_accessed (ties are not ordered) *)
MostRecent(docs) ==
    { d.session_id : d \in { x \in docs : \A y \in docs : y.last_accessed <= x.last_accessed } }

OwnerCandidates(erpnext_url, user_id) ==
    { s \in sessions : /\ s.user_id = user_id
                       /\ s.erpnext_url = erpnext_url
                       /\ s.last_accessed >= CutoffDate(FreshnessDays)
                       /\ s.is_active }

TenantCandidates_Strict(user_agent, ip_address, erpnext_url, username) ==
    { s \in sessions : /\ s.user_identifier = GenerateUserIdentifier(username, erpnext_url)
                       /\ s.browser_fingerprint = GenerateBrowserFingerprint(user_agent, ip_address)
                       /\ s.last_accessed > CutoffDate(FreshnessDays)
                       /\ s.is_active }

TenantCandidates_AnyState(user_agent, ip_address, erpnext_url, username) ==
    { s \in sessions : /\ s.user_identifier = GenerateUserIdentifier(username, erpnext_url)
                       /\ s.browser_fingerprint = GenerateBrowserFingerprint(user_agent, ip_address)
                       /\ s.last_accessed >= CutoffDate(FreshnessDays) }

TenantCandidates(user_agent, ip_address, erpnext_url, username) ==
    { s \in sessions : /\ s.user_identifier = GenerateUserIdentifier(username, erpnext_url)
                       /\ s.browser_fingerprint = GenerateBrowserFingerprint(user_agent, ip_address)
                       /\ s.last_accessed >= CutoffDate(FreshnessDays)
                       /\ s.is_active }

FindExistingSession_DeviceFirst(user_agent, ip_address, erpnext_url, username, user_id) ==
    IF TenantCandidates(user_agent, ip_address, erpnext_url, username) # {}
    THEN MostRecent(TenantCandidates(user_agent, ip_address, erpnext_url, username))
    ELSE IF user_id # NoUser /\ OwnerCandidates(erpnext_url, user_id) # {}
         THEN MostRecent(OwnerCandidates(erpnext_url, user_id))
         ELSE { None }

(* find_existing_session: the set of session ids it may return ({None}: no match) *)
FindExistingSession(user_agent, ip_address, erpnext_url, username, user_id) ==
    IF user_id # NoUser /\ OwnerCandidates(erpnext_url, user_id) # {}
    THEN MostRecent(OwnerCandidates(erpnext_url, user_id))
    ELSE IF TenantCandidates(user_agent, ip_address, erpnext_url, username) # {}
         THEN MostRecent(TenantCandidates(user_agent, ip_address, erpnext_url, username))
         ELSE { None }

(* update_session_access: update_one({"session_id": sid}, {"$set": {"last_accessed": now}}) *)
UpdateSessionAccess(store, sid) ==
    { IF s.session_id = sid THEN [s EXCEPT !.last_accessed = now] ELSE s : s \in store }

VerifyCredentials_KeyOnly(sid, password, google_api_key) ==
    /\ GetSession(sid) # NoSession
    /\ GetSession(sid).google_api_key_hash = HashCredential(google_api_key)

(* verify_credentials *)
VerifyCredentials(sid, password, google_api_key) ==
    /\ GetSession(sid) # NoSession
    /\ GetSession(sid).password_hash = HashCredential(password)
    /\ GetSession(sid).google_api_key_hash = HashCredential(google_api_key)

(* deactivate_session *)
DeactivateSession(store, sid) ==
    { IF s.session_id = sid THEN [s EXCEPT !.is_active = FALSE] ELSE s : s \in store }

ExpiredSessions_ByAgeOnly(days) ==
    { s.session_id : s \in { x \in sessions : x.last_accessed < CutoffDate(days) } }

(* cleanup_expired_sessions: the ids selected by the $or filter *)
ExpiredSessions(days) ==
    { s.session_id : s \in { x \in sessions : x.last_accessed < CutoffDate(days)
                                              \/ ~x.is_active } }

MessagesWithout_Everything(ids) == << >>

MessagesWithout(ids) ==
    LET Keep(m) == m.session_id \notin ids IN SelectSeq(messages, Keep)

SessionsWithout(ids) == { s \in sessions : s.session_id \notin ids }

(* get_chat_history: the messages of the session, oldest first, at most limit *)
StoredHistory(msgs, sid, limit) ==
    LET Mine(m) == m.session_id = sid
        mine == SelectSeq(msgs, Mine)
    IN  SubSeq(mine, 1, IF Len(mine) < limit THEN Len(mine) ELSE limit)

-----------------------------------------------------------------------------
(* Agent cache and rate limiter: aida_api_server.py *)

(* AidaERPNextAgent(...): the handle and the credentials it holds *)
Agent(erpnext_url, username, password, sid) ==
    [ erpnext_url |-> erpnext_url, username |-> username,
      password |-> password, session_id |-> sid ]

(* d[k] = v on a dict *)
Put(d, k, v) == [ x \in DOMAIN d \cup {k} |-> IF x = k THEN v ELSE d[x] ]

Del_Everything(d, k) == [ x \in {} |-> d[x] ]

(* del d[k] *)
Del(d, k) == [ x \in DOMAIN d \ {k} |-> d[x] ]

EmptyDict == [ x \in {} |-> None ]

(* timedelta.seconds: the seconds field of a normalised timedelta, 0 <= seconds < 86400 *)
TimedeltaSeconds(delta) == delta % SecondsPerDay

(* [t for t in last_requests if (current_time - t).seconds < window] *)
RecentRequests(last_requests, window) ==
    LET Keep(t) == TimedeltaSeconds(now - t) < window IN SelectSeq(last_requests, Keep)

(* the rate-limit check of /chat and /create_leads: TRUE when the request passes *)
RateLimitPasses(limits, client_ip, limit, window) ==
    client_ip \in DOMAIN limits => Len(RecentRequests(limits[client_ip], window)) < limit

(* the dict after a request that passes *)
RateLimitRecord(limits, client_ip, window) ==
    IF client_ip \in DOMAIN limits
    THEN Put(limits, client_ip, RecentRequests(limits[client_ip], window) \o << now >>)
    ELSE Put(limits, client_ip, << now >>)

(* history of the rate limiters: one more decision of the limiter of class
   ("chat", "lead") for client_ip *)
Log(log, client_ip, class, admitted) ==
    Put(log, << client_ip, class >>,
        (IF << client_ip, class >> \in DOMAIN log THEN log[<< client_ip, class >>] ELSE << >>)
        \o << [ time |-> now, admitted |-> admitted ] >>)

(* text of a chat request: pad whitespace characters around body other characters *)
Texts == { [ pad |-> 0, body |-> 0 ], [ pad |-> 1, body |-> 5 ],
           [ pad |-> 1, body |-> MaxTextLen ], [ pad |-> 0, body |-> MaxTextLen + 1 ] }

Strip_Truncate(text) ==
    [ pad |-> 0, body |-> IF text.body > MaxTextLen THEN MaxTextLen ELSE text.body ]

(* user_input.strip() *)
Strip(text) == [ pad |-> 0, body |-> text.body ]

TextLen(text) == text.pad + text.body

(* one stored chat message (store_chat_message of mongodb_manager.py) *)
MessageDoc(mid, session, message_type, content, call) ==
    [ message_id |-> mid, session_id |-> session.session_id, user_id |-> session.user_id,
      user_identifier |-> session.user_identifier, timestamp |-> now,
      message_type |-> message_type, content |-> content, call |-> call ]

(* the response of a handler, with the request it answers *)
Response(op, args, status, sid, restored, candidate, built) ==
    [ op |-> op, args |-> args, status |-> status, session_id |-> sid,
      restored |-> restored, candidate |-> candidate, built |-> built, time |-> now ]

(* a response that is an error message and nothing else *)
Error(op, args, status) == Response(op, args, status, None, FALSE, None, FALSE)

Idle == [ op |-> "idle" ]

-----------------------------------------------------------------------------
(* Accounts and login sessions: auth_manager.py *)

AdminUsername == "Shamlan321"
AdminPassword == "5h4ml4n321"
AdminEmail == "admin@aida-platform.com"
AdminUserId == << "admin", 1 >>

(* what _generate_password returned for a created account *)
GeneratedPassword == "generated"

(* _hash_password *)
HashPassword(password) == << "sha256", password >>

VerifyPassword_Always(password, password_hash) == TRUE

(* _verify_password *)
VerifyPassword(password, password_hash) == HashPassword(password) = password_hash

(* the User document _save_user inserts *)
Account(user_id, username, email, password, role) ==
    [ user_id |-> user_id, username |-> username, email |-> email,
      password_hash |-> HashPassword(password), role |-> role, is_active |-> TRUE ]

(* users_collection.find_one({"username": username}), a set with at most one element *)
UsersNamed(username) == { u \in users : u.username = username }

Admins == { u \in users : u.role = "admin" }

(* authenticate_admin: TRUE when it returns (True, user, ...) *)
AuthenticateAdmin(username, password) ==
    \E user \in UsersNamed(username) :
        /\ user.role = "admin"
        /\ user.is_active
        /\ VerifyPassword(password, user.password_hash)

(* authenticate_user: TRUE when it returns (True, user, ...) *)
AuthenticateUser(username, password) ==
    \E user \in UsersNamed(username) :
        /\ user.is_active
        /\ VerifyPassword(password, user.password_hash)

(* the document create_user_session and create_admin_session insert *)
NewUserSession(session_id, user) ==
    [ session_id |-> session_id, user_id |-> user.user_id, username |-> user.username,
      created_at |-> now, is_active |-> TRUE ]

(* get_session of auth_manager.py: the active login session with the id, or none *)
AuthGetSession(session_id) ==
    IF \E s \in user_sessions : s.session_id = session_id /\ s.is_active
    THEN CHOOSE s \in user_sessions : s.session_id = session_id /\ s.is_active
    ELSE NoSession

GetAdminSession_AnyRole(session_id) == AuthGetSession(session_id)

(* get_admin_session: the active login session with the id, when the account of
   its user_id has the role admin *)
GetAdminSession(session_id) ==
    IF /\ AuthGetSession(session_id) # NoSession
       /\ \E u \in users : u.user_id = AuthGetSession(session_id).user_id /\ u.role = "admin"
    THEN AuthGetSession(session_id)
    ELSE NoSession

(* invalidate_session *)
InvalidateSession(store, session_id) ==
    { IF s.session_id = session_id THEN [s EXCEPT !.is_active = FALSE] ELSE s : s \in store }

(* update_one({"user_id": user_id}, {"$set": {"password_hash": ...}}) *)
SetPasswordHash(store, user_id, password_hash) ==
    { IF u.user_id = user_id THEN [u EXCEPT !.password_hash = password_hash] ELSE u : u \in store }

(* deactivate_user and activate_user *)
SetUserActive(store, user_id, is_active) ==
    { IF u.user_id = user_id THEN [u EXCEPT !.is_active = is_active] ELSE u : u \in store }

(* _ensure_admin_exists, the branch that finds no admin named AdminUsername: the
   admin that find_one returned is removed, then the account named AdminUsername,
   then the admin is inserted unless a unique index refuses it *)
RecreateAdmin(store, existing_admin) ==
    LET kept == { u \in store \ existing_admin : u.username # AdminUsername }
        admin == Account(AdminUserId, AdminUsername, AdminEmail, AdminPassword, "admin")
    IN  IF \E u \in kept : u.email = AdminEmail \/ u.user_id = AdminUserId
        THEN kept
        ELSE kept \cup { admin }

(* _ensure_admin_exists: the contents of the collection it can leave *)
Reconcile(store) ==
    LET admins == { u \in store : u.role = "admin" }
    IN  IF \E u \in admins : u.username = AdminUsername
        THEN { { IF u.username = AdminUsername
                 THEN [u EXCEPT !.password_hash = HashPassword(AdminPassword)]
                 ELSE u : u \in store } }
        ELSE { RecreateAdmin(store, existing_admin) :
                 existing_admin \in ( IF admins = {} THEN { {} }
                                      ELSE { { u } : u \in admins } ) }

EnsureAdminExists == users' \in Reconcile(users)

-----------------------------------------------------------------------------
(* Handlers, each run to completion in one step *)

InitArgs(erpnext_url, username, password, user_agent, ip_address, restore_session) ==
    [ erpnext_url |-> erpnext_url, username |-> username, password |-> password,
      user_agent |-> user_agent, ip_address |-> ip_address, restore_session |-> restore_session ]

InitCreate_CachesOnFailure(args, candidate, agent_ok) ==
    /\ sessions' = CreateSession(sessions, uuid_next, args.erpnext_url, args.username,
                                 args.password, args.user_agent, args.ip_address, NoUser)
    /\ uuid_next' = uuid_next + 1
    /\ issued' = issued \cup { uuid_next }
    /\ active_agents' = Put(active_agents, uuid_next,
                            Agent(args.erpnext_url, args.username, args.password, uuid_next))
    /\ last' = IF agent_ok
               THEN Response("init_session", args, 200, uuid_next, FALSE, candidate, TRUE)
               ELSE Response("init_session", args, 500, None, FALSE, candidate, FALSE)

(* the new-session branch of init_session, lines 201-229 *)
InitCreate(args, candidate, agent_ok) ==
    /\ sessions' = CreateSession(sessions, uuid_next, args.erpnext_url, args.username,
                                 args.password, args.user_agent, args.ip_address, NoUser)
    /\ uuid_next' = uuid_next + 1
    /\ issued' = issued \cup { uuid_next }
    /\ IF agent_ok
       THEN /\ active_agents' = Put(active_agents, uuid_next,
                                    Agent(args.erpnext_url, args.username, args.password, uuid_next))
            /\ last' = Response("init_session", args, 200, uuid_next, FALSE, candidate, TRUE)
       ELSE /\ active_agents' = active_agents
            /\ last' = Response("init_session", args, 500, None, FALSE, candidate, FALSE)

(* the restore branch of init_session, lines 172-197 *)
InitRestore(args, candidate, agent_ok) ==
    /\ sessions' = UpdateSessionAccess(sessions, candidate)
    /\ uuid_next' = uuid_next
    /\ issued' = issued
    /\ IF candidate \in DOMAIN active_agents
       THEN /\ active_agents' = active_agents
            /\ last' = Response("init_session", args, 200, candidate, TRUE, candidate, FALSE)
       ELSE IF agent_ok
            THEN /\ active_agents' = Put(active_agents, candidate,
                                         Agent(GetSession(candidate).erpnext_url,
                                               GetSession(candidate).username,
                                               args.password, candidate))
                 /\ last' = Response("init_session", args, 200, candidate, TRUE, candidate, TRUE)
            ELSE /\ active_agents' = active_agents
                 /\ last' = Response("init_session", args, 500, None, FALSE, candidate, FALSE)

(* POST /init_session.  token: "none" (password login), "valid" or "invalid"
   (the outcome of validating a session token against the endpoint) *)
InitSession(erpnext_url, username, password, user_agent, ip_address, restore_session, token, agent_ok) ==
    LET args == InitArgs(erpnext_url, username, password, user_agent, ip_address, restore_session)
    IN
    /\ IF erpnext_url = << >> \/ username = << >>
       THEN /\ last' = Error("init_session", args, 400)
            /\ UNCHANGED << sessions, uuid_next, issued, active_agents >>
       ELSE IF token = "invalid"
       THEN /\ last' = Error("init_session", args, 401)
            /\ UNCHANGED << sessions, uuid_next, issued, active_agents >>
       ELSE \E candidate \in ( IF restore_session
                               THEN FindExistingSession(user_agent, ip_address, erpnext_url,
                                                        username, NoUser)
                               ELSE { None } ) :
                IF candidate # None /\ VerifyCredentials(candidate, password, GOOGLE_API_KEY)
                THEN InitRestore(args, candidate, agent_ok)
                ELSE InitCreate(args, candidate, agent_ok)
    /\ UNCHANGED << auth_vars, now, ticks, msg_next, messages, rate_limits, lead_rate_limits,
                    mocxha_credentials, decisions, req >>

(* POST /init_session in a worker thread, up to the construction of the agent
   (lines 160-179 and 201-207): the session is restored or created, and the thread
   goes on to build an agent unless the cache already holds one for the session *)
InitBegin(t, erpnext_url, username, password, user_agent, ip_address, restore_session) ==
    LET args == InitArgs(erpnext_url, username, password, user_agent, ip_address, restore_session)
        Building(sid, restored, candidate) ==
            [ op |-> "init_session", args |-> args, session_id |-> sid,
              restored |-> restored, candidate |-> candidate ]
    IN
    /\ req[t] = Idle
    /\ \E candidate \in ( IF restore_session
                          THEN FindExistingSession(user_agent, ip_address, erpnext_url,
                                                   username, NoUser)
                          ELSE { None } ) :
          IF candidate # None /\ VerifyCredentials(candidate, password, GOOGLE_API_KEY)
          THEN /\ sessions' = UpdateSessionAccess(sessions, candidate)
               /\ uuid_next' = uuid_next
               /\ issued' = issued
               /\ IF candidate \in DOMAIN active_agents
                  THEN /\ last' = Response("init_session", args, 200, candidate, TRUE,
                                           candidate, FALSE)
                       /\ req' = req
                  ELSE /\ req' = [ req EXCEPT ![t] = Building(candidate, TRUE, candidate) ]
                       /\ last' = last
          ELSE /\ sessions' = CreateSession(sessions, uuid_next, erpnext_url, username,
                                            password, user_agent, ip_address, NoUser)
               /\ uuid_next' = uuid_next + 1
               /\ issued' = issued \cup { uuid_next }
               /\ req' = [ req EXCEPT ![t] = Building(uuid_next, FALSE, candidate) ]
               /\ last' = last
    /\ UNCHANGED << auth_vars, now, ticks, msg_next, messages, active_agents, rate_limits,
                    lead_rate_limits, mocxha_credentials, decisions >>

(* the same request once AidaERPNextAgent(...) has returned or raised
   (lines 180-199, 208-234) *)
InitEnd(t, agent_ok) ==
    /\ req[t].op = "init_session"
    /\ IF agent_ok
       THEN /\ active_agents' = Put(active_agents, req[t].session_id,
                                    Agent(req[t].args.erpnext_url, req[t].args.username,
                                          req[t].args.password, req[t].session_id))
            /\ last' = Response("init_session", req[t].args, 200, req[t].session_id,
                                req[t].restored, req[t].candidate, TRUE)
       ELSE /\ active_agents' = active_agents
            /\ last' = Response("init_session", req[t].args, 500, None, FALSE,
                                req[t].candidate, FALSE)
    /\ req' = [ req EXCEPT ![t] = Idle ]
    /\ UNCHANGED << auth_vars, now, ticks, nreq, uuid_next, issued, msg_next, sessions, messages, rate_limits,
                    lead_rate_limits, mocxha_credentials, decisions >>

(* POST /init_session in a worker thread, its first read of the store, lines
   164-170: find_existing_session when restore is asked for *)
InitFind(t, erpnext_url, username, password, user_agent, ip_address, restore_session) ==
    LET args == InitArgs(erpnext_url, username, password, user_agent, ip_address, restore_session)
    IN
    /\ req[t] = Idle
    /\ \E candidate \in ( IF restore_session
                          THEN FindExistingSession(user_agent, ip_address, erpnext_url,
                                                   username, NoUser)
                          ELSE { None } ) :
          req' = [ req EXCEPT ![t] = [ op |-> "init_session: found", args |-> args,
                                       candidate |-> candidate ] ]
    /\ UNCHANGED << auth_vars, now, ticks, uuid_next, issued, msg_next, sessions, messages,
                    active_agents, rate_limits, lead_rate_limits, mocxha_credentials,
                    decisions, last >>

(* the same request, lines 172-179 and 201-207: the credentials of the session found
   are verified and its access time is updated, or create_session stores a record;
   the thread goes on to build an agent unless the cache holds one *)
InitStore(t) ==
    LET r == req[t]
        Building(sid, restored) ==
            [ op |-> "init_session", args |-> r.args, session_id |-> sid,
              restored |-> restored, candidate |-> r.candidate ]
    IN
    /\ r.op = "init_session: found"
    /\ IF r.candidate # None /\ VerifyCredentials(r.candidate, r.args.password, GOOGLE_API_KEY)
       THEN /\ sessions' = UpdateSessionAccess(sessions, r.candidate)
            /\ uuid_next' = uuid_next
            /\ issued' = issued
            /\ IF r.candidate \in DOMAIN active_agents
               THEN /\ last' = Response("init_session", r.args, 200, r.candidate, TRUE,
                                        r.candidate, FALSE)
                    /\ req' = [ req EXCEPT ![t] = Idle ]
               ELSE /\ req' = [ req EXCEPT ![t] = Building(r.candidate, TRUE) ]
                    /\ last' = last
       ELSE /\ sessions' = CreateSession(sessions, uuid_next, r.args.erpnext_url,
                                         r.args.username, r.args.password,
                                         r.args.user_agent, r.args.ip_address, NoUser)
            /\ uuid_next' = uuid_next + 1
            /\ issued' = issued \cup { uuid_next }
            /\ req' = [ req EXCEPT ![t] = Building(uuid_next, FALSE) ]
            /\ last' = last
    /\ UNCHANGED << auth_vars, now, ticks, nreq, msg_next, messages, active_agents, rate_limits,
                    lead_rate_limits, mocxha_credentials, decisions >>

ChatArgs(client_ip, sid, text) == [ client_ip |-> client_ip, session_id |-> sid, text |-> text ]

ReconnectRequired_Rebuild(args) ==
    /\ last' = Error("chat", args, 410)
    /\ active_agents' = Put(active_agents, args.session_id,
                            Agent(GetSession(args.session_id).erpnext_url,
                                  GetSession(args.session_id).username, "", args.session_id))
    /\ UNCHANGED << messages, msg_next >>

(* POST /chat when the session has no agent in the cache, lines 361-372 *)
ReconnectRequired(args) ==
    /\ last' = Error("chat", args, 410)
    /\ UNCHANGED << messages, msg_next, active_agents >>

(* POST /chat after the rate limiter, lines 345-400 *)
ChatAfterAdmission(args, agent_ok) ==
    LET sid == args.session_id
        user_input == Strip(args.text)
        session_data == GetSession(sid)
    IN
    IF sid = None \/ TextLen(args.text) = 0
    THEN /\ last' = Error("chat", args, 400)
         /\ UNCHANGED << sessions, messages, msg_next, active_agents >>
    ELSE IF TextLen(user_input) > MaxTextLen
    THEN /\ last' = Error("chat", args, 400)
         /\ UNCHANGED << sessions, messages, msg_next, active_agents >>
    ELSE IF session_data = NoSession
    THEN /\ last' = Error("chat", args, 404)
         /\ UNCHANGED << sessions, messages, msg_next, active_agents >>
    ELSE
    /\ sessions' = UpdateSessionAccess(sessions, sid)
    /\ IF sid \notin DOMAIN active_agents
       THEN ReconnectRequired(args)
       ELSE /\ messages' = messages \o
                  << MessageDoc(msg_next, session_data, "user", user_input.body, msg_next),
                     MessageDoc(msg_next + 1, session_data, "assistant",
                                IF agent_ok THEN "response" ELSE "An error occurred.",
                                msg_next) >>
            /\ msg_next' = msg_next + 2
            /\ active_agents' = active_agents
            /\ last' = Response("chat", args, IF agent_ok THEN 200 ELSE 500,
                                sid, FALSE, None, FALSE)

(* POST /chat, lines 319-400, handled without interruption *)
ChatWithAgent(client_ip, sid, text, agent_ok) ==
    LET args == ChatArgs(client_ip, sid, text)
    IN
    /\ IF ~RateLimitPasses(rate_limits, client_ip, ChatLimit, ChatWindow)
       THEN /\ last' = Error("chat", args, 429)
            /\ decisions' = Log(decisions, client_ip, "chat", FALSE)
            /\ UNCHANGED << rate_limits, sessions, messages, msg_next, active_agents >>
       ELSE /\ rate_limits' = RateLimitRecord(rate_limits, client_ip, ChatWindow)
            /\ decisions' = Log(decisions, client_ip, "chat", TRUE)
            /\ ChatAfterAdmission(args, agent_ok)
    /\ UNCHANGED << auth_vars, now, ticks, uuid_next, issued, lead_rate_limits, mocxha_credentials, req >>

(* POST /chat in a worker thread, lines 327-339: the thread reads the clock and the
   list of its address and decides; the list is written by ChatEnd *)
ChatBegin(t, client_ip, sid, text) ==
    LET args == ChatArgs(client_ip, sid, text)
    IN
    /\ req[t] = Idle
    /\ IF ~RateLimitPasses(rate_limits, client_ip, ChatLimit, ChatWindow)
       THEN /\ last' = Error("chat", args, 429)
            /\ decisions' = Log(decisions, client_ip, "chat", FALSE)
            /\ req' = req
       ELSE /\ req' = [ req EXCEPT ![t] =
                          [ op |-> "chat", args |-> args, current_time |-> now,
                            recent_requests |->
                                IF client_ip \in DOMAIN rate_limits
                                THEN RecentRequests(rate_limits[client_ip], ChatWindow)
                                ELSE << >> ] ]
            /\ decisions' = Log(decisions, client_ip, "chat", TRUE)
            /\ last' = last
    /\ UNCHANGED << auth_vars, now, ticks, uuid_next, issued, msg_next, sessions, messages, active_agents,
                    rate_limits, lead_rate_limits, mocxha_credentials >>

(* lines 340-400 of the same request: the write of the list and the rest *)
ChatEnd(t, agent_ok) ==
    /\ req[t].op = "chat"
    /\ rate_limits' = Put(rate_limits, req[t].args.client_ip,
                          req[t].recent_requests \o << req[t].current_time >>)
    /\ ChatAfterAdmission(req[t].args, agent_ok)
    /\ req' = [ req EXCEPT ![t] = Idle ]
    /\ UNCHANGED << auth_vars, now, ticks, nreq, uuid_next, issued, lead_rate_limits, mocxha_credentials,
                    decisions >>

(* POST /chat step by step in a worker thread.  First step, lines 319-372: the
   limiter, the validation, the session check, the access time and the agent lookup *)
ChatCheck(t, client_ip, sid, text) ==
    LET args == ChatArgs(client_ip, sid, text)
    IN
    /\ req[t] = Idle
    /\ IF ~RateLimitPasses(rate_limits, client_ip, ChatLimit, ChatWindow)
       THEN /\ last' = Error("chat", args, 429)
            /\ decisions' = Log(decisions, client_ip, "chat", FALSE)
            /\ UNCHANGED << rate_limits, sessions, req >>
       ELSE /\ rate_limits' = RateLimitRecord(rate_limits, client_ip, ChatWindow)
            /\ decisions' = Log(decisions, client_ip, "chat", TRUE)
            /\ IF sid = None \/ TextLen(text) = 0 \/ TextLen(Strip(text)) > MaxTextLen
               THEN /\ last' = Error("chat", args, 400)
                    /\ UNCHANGED << sessions, req >>
               ELSE IF GetSession(sid) = NoSession
               THEN /\ last' = Error("chat", args, 404)
                    /\ UNCHANGED << sessions, req >>
               ELSE /\ sessions' = UpdateSessionAccess(sessions, sid)
                    /\ IF sid \notin DOMAIN active_agents
                       THEN /\ last' = Error("chat", args, 410)
                            /\ req' = req
                       ELSE /\ req' = [ req EXCEPT ![t] =
                                          [ op |-> "chat", args |-> args, step |-> "agent",
                                            call |-> nreq + 1, failed |-> FALSE,
                                            response |-> "" ] ]
                            /\ last' = last
    /\ UNCHANGED << auth_vars, now, ticks, uuid_next, issued, msg_next, messages, active_agents,
                    lead_rate_limits, mocxha_credentials >>

(* second step, lines 374-376 and 389-391: agent.chat returns its response or raises *)
ChatAgent(t, agent_ok) ==
    /\ req[t].op = "chat" /\ req[t].step = "agent"
    /\ req' = [ req EXCEPT ![t].step = "user", ![t].failed = ~agent_ok,
                           ![t].response = IF agent_ok THEN "response"
                                           ELSE "An error occurred." ]
    /\ UNCHANGED << auth_vars, now, ticks, nreq, uuid_next, issued, msg_next, sessions, messages,
                    active_agents, rate_limits, lead_rate_limits, mocxha_credentials,
                    decisions, last >>

(* the following steps, lines 378-400 with store_chat_message of session_manager.py
   and mongodb_manager.py: one message is stored, the user message and then the
   assistant message.  A session that get_session does not return makes the
   store raise: in the try block the handler goes on to store the pair with the
   error text, in the except block the request ends with status 500 *)
ChatStore(t) ==
    LET r == req[t]
        session == GetSession(r.args.session_id)
    IN
    /\ r.op = "chat" /\ r.step \in { "user", "assistant" }
    /\ IF session = NoSession
       THEN /\ UNCHANGED << messages, msg_next >>
            /\ IF r.failed
               THEN /\ req' = [ req EXCEPT ![t] = Idle ]
                    /\ last' = Error("chat", r.args, 500)
               ELSE /\ req' = [ req EXCEPT ![t].step = "user", ![t].failed = TRUE,
                                           ![t].response = "An error occurred." ]
                    /\ last' = last
       ELSE /\ messages' = Append(messages,
                                  MessageDoc(msg_next, session, r.step,
                                             IF r.step = "user" THEN Strip(r.args.text).body
                                             ELSE r.response, r.call))
            /\ msg_next' = msg_next + 1
            /\ IF r.step = "user"
               THEN /\ req' = [ req EXCEPT ![t].step = "assistant" ]
                    /\ last' = last
               ELSE /\ req' = [ req EXCEPT ![t] = Idle ]
                    /\ last' = Response("chat", r.args, IF r.failed THEN 500 ELSE 200,
                                        r.args.session_id, FALSE, None, FALSE)
    /\ UNCHANGED << auth_vars, now, ticks, nreq, uuid_next, issued, sessions, active_agents,
                    rate_limits, lead_rate_limits, mocxha_credentials, decisions >>

(* AidaERPNextAgent._safe_erpnext_call of services/aida_agent.py, lines 448-493 *)

Operations == { "get_list", "get_doc", "insert", "update", "delete", "call", "post_api" }

(* retry_delay *= 2 *)
NextDelay_Same(retry_delay) == retry_delay

NextDelay(retry_delay) == retry_delay * 2

(* the call is entered, lines 450-451: max_retries and retry_delay are set *)
SafeCallBegin(t, operation) ==
    /\ req[t] = Idle
    /\ req' = [ req EXCEPT ![t] =
                  [ op |-> "_safe_erpnext_call", operation |-> operation, attempt |-> 0,
                    retry_delay |-> 1, outcomes |-> << >>, sleeps |-> << >> ] ]
    /\ UNCHANGED << auth_vars, now, ticks, uuid_next, issued, msg_next, sessions, messages,
                    active_agents, rate_limits, lead_rate_limits, mocxha_credentials,
                    decisions, last >>

(* one iteration of the loop, lines 453-491.  ok: the client method returns; an
   operation that is not known raises before any client method is called.
   outcomes: what the client calls did, sleeps: the arguments of time.sleep *)
SafeCallAttempt(t, ok) ==
    LET r == req[t]
        known == r.operation \in Operations
        outcomes == IF known THEN Append(r.outcomes, ok) ELSE r.outcomes
        Returned(raised) ==
            [ raised |-> raised, outcomes |-> outcomes, sleeps |-> r.sleeps ]
            @@ Response("_safe_erpnext_call", r.operation, None, None, FALSE, None, FALSE)
    IN
    /\ r.op = "_safe_erpnext_call"
    /\ r.attempt < MaxRetries
    /\ IF known /\ ok
       THEN /\ last' = Returned(FALSE)
            /\ req' = [ req EXCEPT ![t] = Idle ]
       ELSE IF r.attempt = MaxRetries - 1
       THEN /\ last' = Returned(TRUE)
            /\ req' = [ req EXCEPT ![t] = Idle ]
       ELSE /\ req' = [ req EXCEPT ![t].attempt = r.attempt + 1,
                                   ![t].outcomes = outcomes,
                                   ![t].sleeps = Append(r.sleeps, r.retry_delay),
                                   ![t].retry_delay = NextDelay(r.retry_delay) ]
            /\ last' = last
    /\ UNCHANGED << auth_vars, now, ticks, nreq, uuid_next, issued, msg_next, sessions, messages,
                    active_agents, rate_limits, lead_rate_limits, mocxha_credentials,
                    decisions >>

(* POST /create_leads, lines 236-316.  fields_ok: no required field is missing;
   lead_ok: the temporary agent is built and creates the leads *)
CreateLeads(client_ip, fields_ok, lead_ok) ==
    LET args == [ client_ip |-> client_ip ]
    IN
    /\ IF ~fields_ok
       THEN /\ last' = Error("create_leads", args, 400)
            /\ UNCHANGED << lead_rate_limits, decisions >>
       ELSE IF ~RateLimitPasses(lead_rate_limits, client_ip, LeadLimit, LeadWindow)
       THEN /\ last' = Error("create_leads", args, 429)
            /\ decisions' = Log(decisions, client_ip, "lead", FALSE)
            /\ UNCHANGED lead_rate_limits
       ELSE /\ lead_rate_limits' = RateLimitRecord(lead_rate_limits, client_ip, LeadWindow)
            /\ decisions' = Log(decisions, client_ip, "lead", TRUE)
            /\ last' = Response("create_leads", args, IF lead_ok THEN 200 ELSE 500,
                                None, FALSE, None, FALSE)
    /\ UNCHANGED << auth_vars, now, ticks, uuid_next, issued, msg_next, sessions, messages, active_agents,
                    rate_limits, mocxha_credentials, req >>

(* POST /clear_session, lines 451-470 *)
ClearSession(sid) ==
    /\ IF sid = None
       THEN /\ last' = Error("clear_session", sid, 400)
            /\ active_agents' = active_agents
       ELSE /\ last' = Response("clear_session", sid, 200, sid, FALSE, None, FALSE)
            /\ active_agents' = IF sid \in DOMAIN active_agents
                                THEN Del(active_agents, sid) ELSE active_agents
    /\ UNCHANGED << auth_vars, now, ticks, uuid_next, issued, msg_next, sessions, messages, rate_limits,
                    lead_rate_limits, mocxha_credentials, decisions, req >>

(* GET /session_status/<session_id>, lines 482-499 *)
SessionStatus(sid) ==
    /\ IF GetSession(sid) # NoSession
       THEN /\ sessions' = UpdateSessionAccess(sessions, sid)
            /\ last' = Response("session_status", sid, 200, sid, FALSE, None, FALSE)
       ELSE /\ sessions' = sessions
            /\ last' = Error("session_status", sid, 404)
    /\ UNCHANGED << auth_vars, now, ticks, uuid_next, issued, msg_next, messages, active_agents, rate_limits,
                    lead_rate_limits, mocxha_credentials, decisions, req >>

(* the pairing loop of get_chat_history, lines 420-439; user_call and ai_call name
   the chat calls that stored the two messages of an entry *)
RECURSIVE FormatHistory(_)
FormatHistory(history) ==
    IF history = << >> THEN << >>
    ELSE IF history[1].message_type = "user"
         THEN IF Len(history) > 1 /\ history[2].message_type = "assistant"
              THEN << [ timestamp |-> history[1].timestamp, user_message |-> history[1].content,
                        ai_response |-> history[2].content,
                        user_call |-> history[1].call, ai_call |-> history[2].call ] >>
                   \o FormatHistory(SubSeq(history, 3, Len(history)))
              ELSE << [ timestamp |-> history[1].timestamp, user_message |-> history[1].content,
                        ai_response |-> "",
                        user_call |-> history[1].call, ai_call |-> None ] >>
                   \o FormatHistory(Tail(history))
         ELSE FormatHistory(Tail(history))

(* GET /get_chat_history/<session_id>?limit=, lines 402-449 *)
GetChatHistory(sid, limit) ==
    /\ IF sid = None
       THEN last' = Error("get_chat_history", sid, 400)
       ELSE IF GetSession(sid) = NoSession
       THEN last' = Error("get_chat_history", sid, 404)
       ELSE last' = [ history |-> FormatHistory(StoredHistory(messages, sid, limit)) ]
                    @@ Response("get_chat_history", sid, 200, sid, FALSE, None, FALSE)
    /\ UNCHANGED << auth_vars, now, ticks, uuid_next, issued, msg_next, sessions, messages, active_agents,
                    rate_limits, lead_rate_limits, mocxha_credentials, decisions, req >>

ConnectArgs(user, erpnext_url, username, password, user_agent, ip_address) ==
    [ user |-> user, erpnext_url |-> erpnext_url, username |-> username, password |-> password,
      user_agent |-> user_agent, ip_address |-> ip_address ]

(* POST /user/connect_mocxha for the platform user of a valid bearer session, lines 725-827 *)
UserConnectMocxha(user, erpnext_url, username, password, user_agent, ip_address, test_ok, agent_ok) ==
    LET args == ConnectArgs(user, erpnext_url, username, password, user_agent, ip_address)
    IN
    /\ IF erpnext_url = << >> \/ username = << >> \/ password = ""
       THEN /\ last' = Error("user_connect_mocxha", args, 400)
            /\ UNCHANGED << sessions, uuid_next, issued, active_agents, mocxha_credentials >>
       ELSE IF ~test_ok
       THEN /\ last' = Error("user_connect_mocxha", args, 400)
            /\ UNCHANGED << sessions, uuid_next, issued, active_agents, mocxha_credentials >>
       ELSE
       /\ mocxha_credentials' = [ mocxha_credentials EXCEPT ![user] =
              [ mocxha_url |-> erpnext_url, username |-> username, password |-> password ] ]
       /\ sessions' = CreateSession(sessions, uuid_next, erpnext_url, username, password,
                                    user_agent, ip_address, user)
       /\ uuid_next' = uuid_next + 1
       /\ issued' = issued \cup { uuid_next }
       /\ IF agent_ok
          THEN /\ active_agents' = Put(active_agents, uuid_next,
                                       Agent(erpnext_url, username, password, uuid_next))
               /\ last' = Response("user_connect_mocxha", args, 200, uuid_next, FALSE, None, TRUE)
          ELSE /\ active_agents' = active_agents
               /\ last' = Error("user_connect_mocxha", args, 500)
    /\ UNCHANGED << auth_vars, now, ticks, msg_next, messages, rate_limits, lead_rate_limits,
                    decisions, req >>

(* POST /user/auto_connect_mocxha for the platform user of a valid bearer session,
   lines 830-950; args are the saved credentials the handler works with *)
UserAutoConnectMocxha(user, user_agent, ip_address, test_ok, agent_ok) ==
    LET credentials == mocxha_credentials[user]
        args == ConnectArgs(user, credentials.mocxha_url, credentials.username,
                            credentials.password, user_agent, ip_address)
    IN
    /\ IF credentials = NoCredentials
       THEN /\ last' = Error("user_auto_connect_mocxha", [ user |-> user ], 404)
            /\ UNCHANGED << sessions, uuid_next, issued, active_agents >>
       ELSE IF ~test_ok
       THEN /\ last' = Error("user_auto_connect_mocxha", args, 400)
            /\ UNCHANGED << sessions, uuid_next, issued, active_agents >>
       ELSE \E candidate \in FindExistingSession(user_agent, ip_address, credentials.mocxha_url,
                                                 credentials.username, user) :
            IF candidate # None /\ GetSession(candidate) # NoSession
            THEN /\ sessions' = UpdateSessionAccess(sessions, candidate)
                 /\ uuid_next' = uuid_next
                 /\ issued' = issued
                 /\ IF candidate \in DOMAIN active_agents
                    THEN /\ active_agents' = active_agents
                         /\ last' = Response("user_auto_connect_mocxha", args, 200, candidate,
                                             TRUE, candidate, FALSE)
                    ELSE IF agent_ok
                    THEN /\ active_agents' = Put(active_agents, candidate,
                                Agent(credentials.mocxha_url, credentials.username,
                                      credentials.password, candidate))
                         /\ last' = Response("user_auto_connect_mocxha", args, 200, candidate,
                                             TRUE, candidate, TRUE)
                    ELSE /\ active_agents' = active_agents
                         /\ last' = Error("user_auto_connect_mocxha", args, 500)
            ELSE /\ sessions' = CreateSession(sessions, uuid_next, credentials.mocxha_url,
                                              credentials.username, credentials.password,
                                              user_agent, ip_address, user)
                 /\ uuid_next' = uuid_next + 1
                 /\ issued' = issued \cup { uuid_next }
                 /\ IF agent_ok
                    THEN /\ active_agents' = Put(active_agents, uuid_next,
                                Agent(credentials.mocxha_url, credentials.username,
                                      credentials.password, uuid_next))
                         /\ last' = Response("user_auto_connect_mocxha", args, 200, uuid_next,
                                             FALSE, candidate, TRUE)
                    ELSE /\ active_agents' = active_agents
                         /\ last' = Error("user_auto_connect_mocxha", args, 500)
    /\ UNCHANGED << auth_vars, now, ticks, msg_next, messages, rate_limits, lead_rate_limits,
                    mocxha_credentials, decisions, req >>

(* MongoDBManager.deactivate_session *)
Deactivate(sid) ==
    /\ sessions' = DeactivateSession(sessions, sid)
    /\ last' = Response("deactivate_session", sid, 200, sid, FALSE, None, FALSE)
    /\ UNCHANGED << auth_vars, now, ticks, uuid_next, issued, msg_next, messages, active_agents, rate_limits,
                    lead_rate_limits, mocxha_credentials, decisions, req >>

(* SessionManager.cleanup_expired_sessions(days), run without interruption *)
CleanupExpiredSessions(days) ==
    /\ sessions' = SessionsWithout(ExpiredSessions(days))
    /\ messages' = MessagesWithout(ExpiredSessions(days))
    /\ last' = Response("cleanup_expired_sessions", days, 200, None, FALSE, None, FALSE)
    /\ UNCHANGED << auth_vars, now, ticks, uuid_next, issued, msg_next, active_agents, rate_limits,
                    lead_rate_limits, mocxha_credentials, decisions, req >>

(* cleanup_expired_sessions(days) run beside other requests, first step, lines
   355-366: the ids of the expired sessions are read; with none the sweep is over *)
SweepFind(t, days) ==
    /\ req[t] = Idle
    /\ IF ExpiredSessions(days) = {}
       THEN /\ req' = req
            /\ last' = Response("cleanup_expired_sessions", days, 200, None, FALSE, None, FALSE)
       ELSE /\ req' = [ req EXCEPT ![t] = [ op |-> "cleanup_expired_sessions", days |-> days,
                                            session_ids |-> ExpiredSessions(days),
                                            step |-> "messages" ] ]
            /\ last' = last
    /\ UNCHANGED << auth_vars, now, ticks, uuid_next, issued, msg_next, sessions, messages, active_agents,
                    rate_limits, lead_rate_limits, mocxha_credentials, decisions >>

(* second step, lines 369-372: delete_many on the messages of the ids read *)
SweepDeleteMessages(t) ==
    /\ req[t].op = "cleanup_expired_sessions" /\ req[t].step = "messages"
    /\ messages' = MessagesWithout(req[t].session_ids)
    /\ req' = [ req EXCEPT ![t].step = "sessions" ]
    /\ UNCHANGED << auth_vars, now, ticks, nreq, uuid_next, issued, msg_next, sessions, active_agents,
                    rate_limits, lead_rate_limits, mocxha_credentials, decisions, last >>

(* third step, lines 374-377: delete_many on the sessions of the ids read *)
SweepDeleteSessions(t) ==
    /\ req[t].op = "cleanup_expired_sessions" /\ req[t].step = "sessions"
    /\ sessions' = SessionsWithout(req[t].session_ids)
    /\ req' = [ req EXCEPT ![t] = Idle ]
    /\ last' = Response("cleanup_expired_sessions", req[t].days, 200, None, FALSE, None, FALSE)
    /\ UNCHANGED << auth_vars, now, ticks, nreq, uuid_next, issued, msg_next, messages, active_agents,
                    rate_limits, lead_rate_limits, mocxha_credentials, decisions >>

(* SessionManager.find_existing_session called on its own, session_manager.py lines
   48-52: the store is read and the session id found, or none, is returned *)
FindExisting(user_agent, ip_address, erpnext_url, username, user_id) ==
    /\ \E candidate \in FindExistingSession(user_agent, ip_address, erpnext_url, username, user_id) :
          last' = Response("find_existing_session",
                           [ user_agent |-> user_agent, ip_address |-> ip_address,
                             erpnext_url |-> erpnext_url, username |-> username,
                             user_id |-> user_id ], 200, None, FALSE, candidate, FALSE)
    /\ UNCHANGED << auth_vars, platform_vars >>

(* Account and admin endpoints *)

Credentials(username, password) == [ username |-> username, password |-> password ]

(* the record of a successful update_admin_password of the account named username;
   the record is dropped by the next password change made in another way *)
Changed(username, old_hash, new_password) ==
    [ auth_history EXCEPT !.password_changes =
          Put(@, username, [ old_hash |-> old_hash, new |-> new_password, restarted |-> FALSE ]) ]

(* POST /admin/login, lines 991-1028 *)
AdminLogin(username, password) ==
    /\ IF AuthenticateAdmin(username, password)
       THEN /\ user_sessions' = user_sessions \cup
                   { NewUserSession(secret_next, CHOOSE u \in UsersNamed(username) : TRUE) }
            /\ secret_next' = secret_next + 1
            /\ auth_history' = [ auth_history EXCEPT !.admin_logins = @ \cup { secret_next } ]
            /\ last' = Response("admin_login", Credentials(username, password), 200,
                                secret_next, FALSE, None, FALSE)
       ELSE /\ last' = Error("admin_login", Credentials(username, password), 401)
            /\ UNCHANGED << user_sessions, secret_next, auth_history >>
    /\ UNCHANGED << users, platform_vars >>

(* POST /auth/login, lines 605-641 *)
Login(username, password) ==
    /\ IF AuthenticateUser(username, password)
       THEN /\ user_sessions' = user_sessions \cup
                   { NewUserSession(secret_next, CHOOSE u \in UsersNamed(username) : TRUE) }
            /\ secret_next' = secret_next + 1
            /\ last' = Response("login", Credentials(username, password), 200,
                                secret_next, FALSE, None, FALSE)
       ELSE /\ last' = Error("login", Credentials(username, password), 401)
            /\ UNCHANGED << user_sessions, secret_next >>
    /\ UNCHANGED << users, auth_history, platform_vars >>

(* GET /admin/check_session, /admin/stats and /admin/users, lines 1031-1152: the
   admin session check and nothing written but the activity time of the session *)
AdminRead(op, session_id) ==
    /\ last' = IF session_id = None \/ GetAdminSession(session_id) = NoSession
               THEN Error(op, [ session_id |-> session_id ], 401)
               ELSE Response(op, [ session_id |-> session_id ], 200, session_id,
                             FALSE, None, FALSE)
    /\ UNCHANGED << auth_vars, platform_vars >>

(* POST /admin/create_user, lines 1154-1186, with create_user of auth_manager.py *)
AdminCreateUser(session_id, username, email, role) ==
    LET args == [ session_id |-> session_id, username |-> username, email |-> email,
                  role |-> role ]
    IN
    /\ IF session_id = None \/ GetAdminSession(session_id) = NoSession
       THEN /\ last' = Error("admin_create_user", args, 401)
            /\ UNCHANGED << users, secret_next >>
       ELSE IF \E u \in users : u.username = username \/ u.email = email
       THEN /\ last' = Error("admin_create_user", args, 400)
            /\ UNCHANGED << users, secret_next >>
       ELSE /\ users' = users \cup { Account(<< "user", secret_next >>, username, email,
                                             GeneratedPassword, role) }
            /\ secret_next' = secret_next + 1
            /\ last' = Response("admin_create_user", args, 201, session_id, FALSE, None, FALSE)
    /\ UNCHANGED << user_sessions, auth_history, platform_vars >>

(* POST /admin/deactivate_user/<user_id> and /admin/activate_user/<user_id>,
   lines 1188-1236 *)
AdminSetUserActive(session_id, user_id, is_active) ==
    LET op == IF is_active THEN "admin_activate_user" ELSE "admin_deactivate_user"
        args == [ session_id |-> session_id, user_id |-> user_id ]
    IN
    /\ IF session_id = None \/ GetAdminSession(session_id) = NoSession
       THEN /\ last' = Error(op, args, 401)
            /\ users' = users
       ELSE /\ users' = SetUserActive(users, user_id, is_active)
            /\ last' = Response(op, args, 200, session_id, FALSE, None, FALSE)
    /\ UNCHANGED << user_sessions, secret_next, auth_history, platform_vars >>

(* POST /admin/logout, lines 1059-1073 *)
AdminLogout(session_id) ==
    /\ IF session_id # None
       THEN /\ user_sessions' = InvalidateSession(user_sessions, session_id)
            /\ auth_history' = [ auth_history EXCEPT !.logouts =
                                     @ \cup { s.session_id : s \in { x \in user_sessions :
                                                                   x.session_id = session_id } } ]
       ELSE UNCHANGED << user_sessions, auth_history >>
    /\ last' = Response("admin_logout", [ session_id |-> session_id ], 200, session_id,
                        FALSE, None, FALSE)
    /\ UNCHANGED << users, secret_next, platform_vars >>

(* POST /admin/change_password, lines 1075-1108, with update_admin_password: the
   update succeeds when the stored hash was modified *)
AdminChangePassword(session_id, current_password, new_password) ==
    LET args == [ session_id |-> session_id, current_password |-> current_password,
                  new_password |-> new_password ]
        admin_session == GetAdminSession(session_id)
        user == CHOOSE u \in UsersNamed(admin_session.username) : TRUE
    IN
    /\ IF session_id = None \/ admin_session = NoSession
       THEN /\ last' = Error("admin_change_password", args, 401)
            /\ UNCHANGED << users, auth_history >>
       ELSE IF \/ ~AuthenticateAdmin(admin_session.username, current_password)
               \/ user.password_hash = HashPassword(new_password)
       THEN /\ last' = Error("admin_change_password", args, 400)
            /\ UNCHANGED << users, auth_history >>
       ELSE /\ users' = SetPasswordHash(users, user.user_id, HashPassword(new_password))
            /\ auth_history' = Changed(user.username, user.password_hash, new_password)
            /\ last' = Response("admin_change_password", args, 200, session_id,
                                FALSE, None, FALSE)
    /\ UNCHANGED << user_sessions, secret_next, platform_vars >>

(* POST /auth/change_password, lines 682-722 *)
ChangePassword(session_id, current_password, new_password) ==
    LET args == [ session_id |-> session_id, current_password |-> current_password,
                  new_password |-> new_password ]
        session == AuthGetSession(session_id)
        user == CHOOSE u \in users : u.user_id = session.user_id
    IN
    /\ IF session_id = None \/ session = NoSession
       THEN /\ last' = Error("change_password", args, 401)
            /\ UNCHANGED << users, auth_history >>
       ELSE IF ~\E u \in users : u.user_id = session.user_id
       THEN /\ last' = Error("change_password", args, 404)
            /\ UNCHANGED << users, auth_history >>
       ELSE IF ~VerifyPassword(current_password, user.password_hash)
       THEN /\ last' = Error("change_password", args, 401)
            /\ UNCHANGED << users, auth_history >>
       ELSE /\ users' = SetPasswordHash(users, user.user_id, HashPassword(new_password))
            /\ auth_history' = [ auth_history EXCEPT
                                     !.password_changes = Del(@, user.username) ]
            /\ last' = Response("change_password", args, 200, session_id, FALSE, None, FALSE)
    /\ UNCHANGED << user_sessions, secret_next, platform_vars >>

(* the TTL index on created_at of user_sessions, auth_manager.py line 82: the
   database deletes the login sessions created SessionTTLDays or more ago *)
ExpireUserSessions ==
    /\ \E s \in user_sessions : now - s.created_at >= SessionTTLDays * SecondsPerDay
    /\ user_sessions' = { s \in user_sessions :
                            now - s.created_at < SessionTTLDays * SecondsPerDay }
    /\ UNCHANGED << users, secret_next, auth_history, platform_vars, nreq, last >>

(* the record of the password changes once the process has started again *)
RestartedSince ==
    [ auth_history EXCEPT !.password_changes =
          [ k \in DOMAIN @ |-> [ @[k] EXCEPT !.restarted = TRUE ] ] ]

Restart_ForgetsIds ==
    /\ sessions' = {}
    /\ messages' = << >>
    /\ active_agents' = EmptyDict
    /\ rate_limits' = EmptyDict
    /\ lead_rate_limits' = EmptyDict
    /\ uuid_next' = 1
    /\ last' = Response("restart", None, 200, None, FALSE, None, FALSE)
    /\ EnsureAdminExists
    /\ auth_history' = RestartedSince
    /\ UNCHANGED << user_sessions, secret_next >>
    /\ UNCHANGED << now, ticks, issued, msg_next, mocxha_credentials, decisions, req >>

(* process start, lines 64-78: SessionManager() sweeps the store it finds,
   AuthManager() reconciles the admin account, the module starts with no agents and
   no rate-limit attributes, then clear_all_sessions() *)
Restart ==
    /\ sessions' = {}
    /\ messages' = << >>
    /\ active_agents' = EmptyDict
    /\ rate_limits' = EmptyDict
    /\ lead_rate_limits' = EmptyDict
    /\ last' = Response("restart", None, 200, None, FALSE, None, FALSE)
    /\ EnsureAdminExists
    /\ auth_history' = RestartedSince
    /\ UNCHANGED << user_sessions, secret_next >>
    /\ UNCHANGED << now, ticks, uuid_next, issued, msg_next, mocxha_credentials, decisions, req >>

(* the clock advances by delta seconds *)
Tick(delta) ==
    /\ ticks < MaxTicks
    /\ now' = now + delta
    /\ ticks' = ticks + 1
    /\ UNCHANGED << auth_vars, nreq, uuid_next, issued, msg_next, sessions, messages, active_agents, rate_limits,
                    lead_rate_limits, mocxha_credentials, decisions, req, last >>

-----------------------------------------------------------------------------
(* The serving process, one request at a time *)

Init ==
    /\ now = 0
    /\ ticks = 0
    /\ nreq = 0
    /\ uuid_next = 1
    /\ issued = {}
    /\ users = { Account(AdminUserId, AdminUsername, AdminEmail, AdminPassword, "admin") }
    /\ user_sessions = {}
    /\ secret_next = 1
    /\ auth_history = [ password_changes |-> EmptyDict, admin_logins |-> {}, logouts |-> {} ]
    /\ msg_next = 1
    /\ sessions = {}
    /\ messages = << >>
    /\ active_agents = EmptyDict
    /\ rate_limits = EmptyDict
    /\ lead_rate_limits = EmptyDict
    /\ mocxha_credentials = [ u \in PlatformUsers |-> NoCredentials ]
    /\ decisions = EmptyDict
    /\ req = [ t \in Threads |-> Idle ]
    /\ last = Idle

(* Requests the clients send; each specification draws them from its own sets
   and bounds the number it sends *)

Request(max, Handler) ==
    /\ nreq < max
    /\ nreq' = nreq + 1
    /\ Handler

SendInitSession(max, logins, passwords, addresses, restores, outcomes) ==
    \E login \in logins, password \in passwords, ip_address \in addresses,
       restore_session \in restores, agent_ok \in outcomes, user_agent \in UserAgents :
        Request(max, InitSession(login[1], login[2], password, user_agent, ip_address,
                                 restore_session, "none", agent_ok))

SendInvalidInitSession(max) ==
    \E login \in { << << >>, << "u" >> >>, << << "a" >>, << >> >> },
       token \in { "none", "invalid" } :
        /\ login[1] # << >> \/ token = "none"
        /\ Request(max, InitSession(login[1], login[2], "p1", << "m" >>, << "1" >>,
                                    TRUE, token, TRUE))

SendConnect(max, logins, passwords, addresses, outcomes) ==
    \E user \in PlatformUsers, login \in logins, password \in passwords,
       ip_address \in addresses, test_ok \in outcomes, agent_ok \in outcomes,
       user_agent \in UserAgents :
        Request(max, UserConnectMocxha(user, login[1], login[2], password, user_agent,
                                       ip_address, test_ok, agent_ok))

SendAutoConnect(max, addresses, outcomes) ==
    \E user \in PlatformUsers, ip_address \in addresses, test_ok \in outcomes,
       agent_ok \in outcomes, user_agent \in UserAgents :
        Request(max, UserAutoConnectMocxha(user, user_agent, ip_address, test_ok, agent_ok))

SendChat(max, addresses, sids, texts, outcomes) ==
    \E client_ip \in addresses, sid \in sids, text \in texts, agent_ok \in outcomes :
        Request(max, ChatWithAgent(client_ip, sid, text, agent_ok))

SendClearSession(max, sids) == \E sid \in sids : Request(max, ClearSession(sid))

SendSessionStatus(max, sids) == \E sid \in sids : Request(max, SessionStatus(sid))

SendGetChatHistory(max, sids, limits) ==
    \E sid \in sids, limit \in limits : Request(max, GetChatHistory(sid, limit))

DoDeactivate(max, sids) == \E sid \in sids : Request(max, Deactivate(sid))

DoCleanup(max, ages) == \E days \in ages : Request(max, CleanupExpiredSessions(days))

DoRestart(max) == Request(max, Restart)

DoTick(jumps) == \E delta \in jumps : Tick(delta)

Valid == [ pad |-> 1, body |-> 5 ]
Padded == [ pad |-> 1, body |-> MaxTextLen ]
Window == FreshnessDays * SecondsPerDay

-----------------------------------------------------------------------------
(* The cache and the chat endpoint: every operation, few inputs *)

Next ==
    \/ SendInitSession(MaxRequests, { Alice }, { "p1" }, { Here }, { TRUE }, BOOLEAN)
    \/ SendInvalidInitSession(MaxRequests)
    \/ SendConnect(MaxRequests, { Alice }, { "p1" }, { Here }, BOOLEAN)
    \/ SendAutoConnect(MaxRequests, { Here }, BOOLEAN)
    \/ SendChat(MaxRequests, { Here }, 0..2, { Valid }, BOOLEAN)
    \/ SendChat(MaxRequests, { Here }, { 1 }, Texts \ { Valid, Padded }, { TRUE })
    \/ SendClearSession(MaxRequests, 0..1)
    \/ SendSessionStatus(MaxRequests, { 1 })
    \/ SendGetChatHistory(MaxRequests, 0..1, { 20 })
    \/ DoDeactivate(MaxRequests, { 1 })
    \/ DoCleanup(MaxRequests, { FreshnessDays })
    \/ DoRestart(MaxRequests)
    \/ DoTick({ 1 })

Spec == Init /\ [][Next]_vars

-----------------------------------------------------------------------------
(* Restoration by platform account: connect, auto-connect, init *)

NextOwner ==
    \/ SendConnect(MaxOwnerRequests, { Alice, Bob }, Passwords, { Here }, { TRUE })
    \/ SendAutoConnect(MaxOwnerRequests, { Here, There }, { TRUE })
    \/ SendInitSession(MaxOwnerRequests, { Alice }, Passwords, { Here }, { TRUE }, { TRUE })
    \/ SendSessionStatus(MaxOwnerRequests, 1..2)
    \/ DoTick({ 1 })

SpecOwner == Init /\ [][NextOwner]_vars

-----------------------------------------------------------------------------
(* Restoration by tenant key and device: init_session, chat, clear_session *)

NextRestore ==
    \/ SendInitSession(MaxRestoreRequests, { Alice, AliceAgain }, Passwords, { Here },
                       { TRUE }, BOOLEAN)
    \/ SendChat(MaxRestoreRequests, { Here }, 1..2, { Valid }, { TRUE })
    \/ SendClearSession(MaxRestoreRequests, 1..2)
    \/ DoTick({ 1, Window })

SpecRestore == Init /\ [][NextRestore]_vars

-----------------------------------------------------------------------------
(* The sweeper *)

NextSweep ==
    \/ SendInitSession(MaxSweepRequests, { Alice }, { "p1" }, { Here }, { FALSE }, { TRUE })
    \/ SendChat(MaxSweepRequests, { Here }, 1..2, { Valid }, { TRUE })
    \/ DoDeactivate(MaxSweepRequests, 1..2)
    \/ DoCleanup(MaxSweepRequests, { 1, FreshnessDays })
    \/ DoTick({ SecondsPerDay, Window })

SpecSweep == Init /\ [][NextSweep]_vars

-----------------------------------------------------------------------------
(* The rate limiters, with /chat handled by two worker threads *)

NextLimiter ==
    \/ \E t \in Threads : Request(MaxLimiterRequests, ChatBegin(t, Here, 1, Valid))
    \/ \E t \in Threads : ChatEnd(t, TRUE)
    \/ DoTick({ ChatWindow \div 2 })

SpecLimiter == Init /\ [][NextLimiter]_vars

-----------------------------------------------------------------------------
(* The rate limiters over long gaps, one request at a time *)

(* the decisions taken so far on the lead requests of client_ip *)
LeadDecisions(client_ip) ==
    IF << client_ip, "lead" >> \in DOMAIN decisions
    THEN decisions[<< client_ip, "lead" >>] ELSE << >>

NextRecovery ==
    \/ SendChat(MaxRecoveryRequests, { Here }, { 1 }, { Valid }, { TRUE })
    \/ /\ Len(LeadDecisions(Here)) < MaxLeadRequests
       /\ Request(MaxRecoveryRequests, CreateLeads(Here, TRUE, TRUE))
    \/ DoTick({ ChatWindow \div 2, SecondsPerDay })

SpecRecovery == Init /\ [][NextRecovery]_vars

-----------------------------------------------------------------------------
(* init_session handled by two worker threads *)

NextThreads ==
    \/ \E t \in Threads :
          Request(MaxThreadRequests, InitBegin(t, Alice[1], Alice[2], "p1", << "m" >>, Here, TRUE))
    \/ \E t \in Threads, agent_ok \in BOOLEAN : InitEnd(t, agent_ok)
    \/ SendChat(MaxThreadRequests, { Here }, { 1 }, { Valid }, { TRUE })
    \/ SendClearSession(MaxThreadRequests, { 1 })
    \/ DoTick({ 1 })

SpecThreads == Init /\ [][NextThreads]_vars

-----------------------------------------------------------------------------
(* Properties of restoration *)

ReuseOps == { "init_session", "user_auto_connect_mocxha" }

(* the last request was answered with the id of a session that existed before it *)
Reused == last.op \in ReuseOps /\ last.status = 200 /\ last.restored

(* C1: a session id is handed back for reuse (and an agent attached to it) only
   when the hashes stored for that session equal the hashes of the secrets the
   caller works with: the supplied secret and the configured secondary key *)
C1_ReuseOnlyAfterVerification ==
    Reused => \A s \in sessions :
                 s.session_id = last.session_id
                 => /\ s.password_hash = HashCredential(last.args.password)
                    /\ s.google_api_key_hash = HashCredential(GOOGLE_API_KEY)

(* C2: a session id handed back for reuse belongs to the tenant key computed
   from the endpoint and username the caller works with *)
C2_ReuseWithinTenant ==
    Reused => \A s \in sessions :
                 s.session_id = last.session_id
                 => s.user_identifier
                    = GenerateUserIdentifier(last.args.username, last.args.erpnext_url)

(* a request is handled by this step *)
Handled(op) == nreq' = nreq + 1 /\ last'.op = op

(* the sessions of the store that init_session's caller could be matched with:
   same tenant key and same device fingerprint as the request args *)
SameCaller(args) ==
    { s \in sessions :
        /\ s.user_identifier = GenerateUserIdentifier(args.username, args.erpnext_url)
        /\ s.browser_fingerprint
           = GenerateBrowserFingerprint(args.user_agent, args.ip_address) }

(* this step is an init_session with restore=true that repeats, within the freshness
   window and with nothing in between, the successful init_session before it *)
RepeatedInit ==
    /\ last.op = "init_session" /\ last.status = 200 /\ last.args.restore_session
    /\ Handled("init_session")
    /\ last'.args = last.args
    /\ now - last.time <= Window

SameSessionAgain ==
    /\ last'.status = 200
    /\ last'.session_id = last.session_id
    /\ last'.restored
    /\ { s.session_id : s \in sessions' } = SessionIds

(* C3: two successive identical init_session calls with restore=true within
   the freshness window return the same session id, the second with restored=true,
   and the second creates no session record *)
C3_RestorationIdempotence == [][RepeatedInit => SameSessionAgain]_vars

(* the sessions S of C4: same caller, stored with a secret other than the supplied one *)
OtherSecret(args) ==
    { s \in SameCaller(args) : s.password_hash # HashCredential(args.password) }

(* C4 as stated: when a session S of the same endpoint, username, device string and
   client address exists and init_session is called with a different secret, the
   call returns restored=false and a session id other than S's, and the history
   of S stays retrievable *)
C4_CredentialChange ==
    [][Handled("init_session")
       => \A S \in OtherSecret(last'.args) :
             /\ last'.status = 200
             /\ ~last'.restored
             /\ last'.session_id # S.session_id
             /\ S \in sessions'
             /\ messages' = messages]_vars

(* C4 amended: such a call never returns S's id and leaves S's record and the
   stored messages as they were; it ends with 200 or, when the agent cannot be
   built, 500; a 200 with restored=true names another session that existed before
   with the hash of the supplied secret, a 200 with restored=false names a
   session id that did not exist before *)
C4_CredentialChangeKeepsOld ==
    [][Handled("init_session")
       => \A S \in OtherSecret(last'.args) :
             /\ last'.session_id # S.session_id
             /\ S \in sessions'
             /\ messages' = messages
             /\ last'.status \in { 200, 500 }
             /\ last'.status = 200 /\ last'.restored
                => \E s \in sessions :
                      /\ s.session_id = last'.session_id
                      /\ s.password_hash = HashCredential(last'.args.password)
             /\ last'.status = 200 /\ ~last'.restored
                => last'.session_id \notin SessionIds]_vars

(* an init_session found a candidate with messages, its verification failed and a
   new session was returned *)
C4_Witness ==
    /\ last.op = "init_session" /\ last.status = 200 /\ ~last.restored
    /\ last.candidate # None
    /\ last.candidate # last.session_id
    /\ \E i \in 1..Len(messages) : messages[i].session_id = last.candidate
    /\ \E s \in OtherSecret(last.args) : s.session_id = last.candidate

-----------------------------------------------------------------------------
(* Properties of the chat operation and the agent cache *)

(* the durable record of sid exists and is active *)
ActiveRecord(sid) == \E s \in sessions : s.session_id = sid /\ s.is_active

(* C5: a chat request that passed the rate limiter and the input validation is
   answered 404 exactly when its session id has no active durable record, and 410
   exactly when the record is active and the agent cache has no entry for the id *)
C5_MissingSessionOrMissingHandle ==
    last.op = "chat" /\ last.status \notin { 429, 400 }
    => /\ last.status = 404 <=> ~ActiveRecord(last.args.session_id)
       /\ last.status = 410 <=> /\ ActiveRecord(last.args.session_id)
                                /\ last.args.session_id \notin DOMAIN active_agents

(* chat answered 410 for an active session without a handle while an id issued
   earlier has no active record any more *)
C5_Witness ==
    /\ last.op = "chat" /\ last.status = 410
    /\ ActiveRecord(last.args.session_id)
    /\ last.args.session_id \notin DOMAIN active_agents
    /\ \E sid \in 1..(uuid_next - 1) : ~ActiveRecord(sid)

SecretOps == { "init_session", "user_connect_mocxha", "user_auto_connect_mocxha" }

(* C6: chat never changes the agent cache; a session id enters active_agents only
   in a step that handles init_session, user_connect_mocxha or
   user_auto_connect_mocxha; a chat answered 410 leaves the stored messages as
   they were *)
C6_NoSilentReconstruction ==
    [][/\ DOMAIN active_agents' \ DOMAIN active_agents # {}
          => nreq' = nreq + 1 /\ last'.op \in SecretOps
       /\ Handled("chat") => active_agents' = active_agents
       /\ Handled("chat") /\ last'.status = 410 => messages' = messages]_vars

(* chat answered 410 for a session that has stored messages, and the cache still
   has no entry for it *)
C6_Witness ==
    /\ last.op = "chat" /\ last.status = 410
    /\ last.args.session_id \notin DOMAIN active_agents
    /\ \E i \in 1..Len(messages) : messages[i].session_id = last.args.session_id

-----------------------------------------------------------------------------
(* Properties of the sweeper *)

(* C10: cleanup_expired_sessions(d) removes exactly the session records whose
   last_accessed is earlier than now minus d days or whose is_active is false,
   removes exactly the messages of those sessions, and leaves every other record
   and message, and their order, as they were *)
C10_SweepCorrectness ==
    [][Handled("cleanup_expired_sessions")
       => LET gone == { s \in sessions :
                          \/ s.last_accessed < now - last'.args * SecondsPerDay
                          \/ ~s.is_active }
              Kept(msg) == \A s \in gone : msg.session_id # s.session_id
          IN  /\ sessions' = sessions \ gone
              /\ messages' = SelectSeq(messages, Kept)]_vars

(* a sweep has removed a session and its messages and kept a session with its
   messages *)
C10_Witness ==
    /\ last.op = "cleanup_expired_sessions"
    /\ sessions # {}
    /\ Cardinality(sessions) < uuid_next - 1
    /\ messages # << >>
    /\ Len(messages) < msg_next - 1

-----------------------------------------------------------------------------
(* Properties of the rate limiters *)

(* the decisions of the limiters of class, one log for each address *)
Decisions(class) == { decisions[k] : k \in { x \in DOMAIN decisions : x[2] = class } }

(* number of requests admitted in the window seconds that end with decision i *)
AdmittedWithin(log, i, window) ==
    Cardinality({ j \in 1..i : log[j].admitted /\ log[i].time - log[j].time < window })

(* C7: for every client address, no more than 10 chat requests are admitted
   within any 60 seconds, however the requests are scheduled *)
C7_ChatRateLimit ==
    \A log \in Decisions("chat") :
        \A i \in 1..Len(log) :
            log[i].admitted => AdmittedWithin(log, i, ChatWindow) <= ChatLimit

(* every rejection of the log follows an admitted request by no more than window seconds *)
RejectedOnlyWhenRecent(log, window) ==
    \A i \in 1..Len(log) :
        ~log[i].admitted
        => \E j \in 1..(i - 1) : log[j].admitted /\ log[i].time - log[j].time <= window

(* C8: a chat request is rejected as rate limited only if some chat request of the
   same address was admitted in the 60 seconds before it, and a lead-creation
   request only if one was admitted in the 300 seconds before it *)
C8_RateLimitRecovery ==
    /\ \A log \in Decisions("chat") : RejectedOnlyWhenRecent(log, ChatWindow)
    /\ \A log \in Decisions("lead") : RejectedOnlyWhenRecent(log, LeadWindow)

-----------------------------------------------------------------------------
(* Properties of agent construction *)

(* C9: no two requests are building an agent for the same session id at the
   same time *)
C9_SingleFlightConstruction ==
    \A t1, t2 \in Threads :
        t1 # t2 /\ req[t1].op = "init_session" /\ req[t2].op = "init_session"
        => req[t1].session_id # req[t2].session_id

-----------------------------------------------------------------------------
(* Properties of inactive sessions and of stored messages *)

(* the session records that are not active *)
Inactive == { s \in sessions : ~s.is_active }

(* no lookup, verification or restoration returns the session, whoever asks
   with the endpoint and username it was created with *)
NeverReturned(s) ==
    /\ GetSession(s.session_id) = NoSession
    /\ \A password \in Passwords : ~VerifyCredentials(s.session_id, password, GOOGLE_API_KEY)
    /\ \A ip_address \in { Here, There }, user_agent \in UserAgents,
          user_id \in PlatformUsers \cup { NoUser } :
          s.session_id \notin FindExistingSession(user_agent, ip_address, s.erpnext_url,
                                                  s.username, user_id)

(* the messages stored for sid, in order of insertion *)
MessagesOf(msgs, sid) == LET Mine(m) == m.session_id = sid IN SelectSeq(msgs, Mine)

(* C12: a session with is_active=false is never returned by get_session,
   verify_credentials or find_existing_session; the store's get_chat_history
   returns its messages by its session id, and record and messages stay as they
   are in every step other than a sweep or the clear-all of a restart *)
C12_InactiveHiddenHistoryKept ==
    [][/\ \A s \in Inactive' :
             /\ NeverReturned(s)'
             /\ StoredHistory(messages', s.session_id, Len(messages'))
                = MessagesOf(messages', s.session_id)
       /\ \A s \in Inactive :
             \/ /\ s \in sessions'
                /\ MessagesOf(messages', s.session_id) = MessagesOf(messages, s.session_id)
             \/ nreq' = nreq + 1 /\ last'.op \in { "cleanup_expired_sessions", "restart" }]_vars

(* init_session with restore=true was answered with a new session while an
   inactive session of the same caller, with messages, is stored *)
C12_Witness ==
    /\ last.op = "init_session" /\ last.status = 200 /\ ~last.restored
    /\ last.args.restore_session
    /\ \E s \in Inactive \cap SameCaller(last.args) : MessagesOf(messages, s.session_id) # << >>

(* C13: in every step each stored message either stays in the store with all its
   fields, or the step is a sweep or a clear-all that also removes the session
   record of the message; no message id ever carries other fields than before *)
C13_MessagesAppendOnly ==
    [][\A i \in 1..Len(messages) :
          /\ \/ \E j \in 1..Len(messages') : messages'[j] = messages[i]
             \/ /\ nreq' = nreq + 1
                /\ last'.op \in { "cleanup_expired_sessions", "restart" }
                /\ messages[i].session_id \in SessionIds
                /\ \A s \in sessions' : s.session_id # messages[i].session_id
          /\ \A j \in 1..Len(messages') :
                messages'[j].message_id = messages[i].message_id
                => messages'[j] = messages[i]]_vars

(* a sweep has run and left the messages of a fresh active session in the store *)
C13_Witness ==
    /\ last.op = "cleanup_expired_sessions"
    /\ \E s \in sessions : s.is_active /\ Len(MessagesOf(messages, s.session_id)) >= 2

-----------------------------------------------------------------------------
(* Frame and error properties of the handlers *)

(* C14: clear_session(sid) takes at most the entry of sid out of active_agents
   and leaves the session records, the messages, the entries of other sessions
   and both rate limiters as they were; a chat that follows it on the same
   session id, the record being active, is answered 410 and not 404 *)
C14_ClearSessionFrame ==
    [][/\ Handled("clear_session")
          => /\ sessions' = sessions
             /\ messages' = messages
             /\ rate_limits' = rate_limits
             /\ lead_rate_limits' = lead_rate_limits
             /\ DOMAIN active_agents \ { last'.args } \subseteq DOMAIN active_agents'
             /\ DOMAIN active_agents' \subseteq DOMAIN active_agents \ { last'.args }
             /\ \A k \in DOMAIN active_agents' : active_agents'[k] = active_agents[k]
       /\ /\ last.op = "clear_session" /\ last.status = 200
          /\ Handled("chat")
          /\ last'.args.session_id = last.args
          /\ last'.status \notin { 429, 400 }
          /\ ActiveRecord(last.args)
          => last'.status = 410]_vars

(* clear_session removed the agent of a session that has messages while the agent
   of another session stays in the cache *)
C14_Witness ==
    /\ last.op = "clear_session" /\ last.status = 200
    /\ ActiveRecord(last.args)
    /\ MessagesOf(messages, last.args) # << >>
    /\ last.args \notin DOMAIN active_agents
    /\ DOMAIN active_agents # {}

(* C15: when the agent cannot be built during init_session the request is answered
   with an error, the cache is as it was and holds no entry for the session
   restored or created by the request, and every session record that existed is
   still stored with the same is_active *)
C15_ConstructionFailure ==
    [][Handled("init_session") /\ last'.status = 500
       => /\ last'.session_id = None
          /\ active_agents' = active_agents
          /\ \A sid \in { s.session_id : s \in sessions' } \ SessionIds :
                sid \notin DOMAIN active_agents'
          /\ { s.session_id : s \in sessions' } = SessionIds
             => last'.candidate \notin DOMAIN active_agents'
          /\ \A s \in sessions : \E x \in sessions' :
                x.session_id = s.session_id /\ x.is_active = s.is_active]_vars

(* a restore of a stored session failed to build its agent *)
C15_Witness ==
    /\ last.op = "init_session" /\ last.status = 500
    /\ last.candidate # None
    /\ ActiveRecord(last.candidate)
    /\ last.candidate \notin DOMAIN active_agents
    /\ Cardinality(sessions) = 1

-----------------------------------------------------------------------------
(* Requests to the account and admin endpoints *)

Eve == [ username |-> "eve", email |-> "eve@example.com" ]

Roles == { "user", "admin" }

SendAdminLogin(max, usernames, passwords) ==
    \E username \in usernames, password \in passwords :
        Request(max, AdminLogin(username, password))

SendLogin(max, usernames, passwords) ==
    \E username \in usernames, password \in passwords : Request(max, Login(username, password))

SendAdminRead(max, ops, sids) ==
    \E op \in ops, session_id \in sids : Request(max, AdminRead(op, session_id))

SendAdminCreateUser(max, sids, roles) ==
    \E session_id \in sids, role \in roles :
        Request(max, AdminCreateUser(session_id, Eve.username, Eve.email, role))

SendAdminSetUserActive(max, sids, user_ids) ==
    \E session_id \in sids, user_id \in user_ids, is_active \in BOOLEAN :
        Request(max, AdminSetUserActive(session_id, user_id, is_active))

SendAdminLogout(max, sids) == \E session_id \in sids : Request(max, AdminLogout(session_id))

SendAdminChangePassword(max, sids, passwords) ==
    \E session_id \in sids, current_password \in passwords, new_password \in passwords :
        Request(max, AdminChangePassword(session_id, current_password, new_password))

SendChangePassword(max, sids, passwords) ==
    \E session_id \in sids, current_password \in passwords, new_password \in passwords :
        Request(max, ChangePassword(session_id, current_password, new_password))

-----------------------------------------------------------------------------
(* The accounts across process starts: accounts are created, deactivated and given
   new passwords, and the process starts again *)

NextBootstrap ==
    \/ SendAdminLogin(MaxBootstrapRequests, { AdminUsername }, { AdminPassword })
    \/ SendAdminCreateUser(MaxBootstrapRequests, { 1 }, Roles)
    \/ SendAdminSetUserActive(MaxBootstrapRequests, { 1 }, { AdminUserId, << "user", 2 >> })
    \/ SendAdminChangePassword(MaxBootstrapRequests, { 1 }, { AdminPassword, "q" })
    \/ DoRestart(MaxBootstrapRequests)

SpecBootstrap == Init /\ [][NextBootstrap]_vars

(* C17: when the process has started, whatever accounts were created, deactivated
   or given new passwords before, exactly one account has the role admin, it has
   the canonical username and the hash of the canonical password, and doing the
   reconciliation once more would change nothing *)
C17_AdminBootstrap ==
    [][Handled("restart")
       => /\ Cardinality({ u \in users' : u.role = "admin" }) = 1
          /\ \A u \in users' : u.role = "admin"
                => /\ u.username = AdminUsername
                   /\ u.password_hash = HashPassword(AdminPassword)
          /\ Reconcile(users') = { users' }]_vars

-----------------------------------------------------------------------------
(* The admin password: logins, password changes through both change_password
   endpoints, deactivation of the admin account, and process starts *)

NextPassword ==
    \/ SendAdminLogin(MaxPasswordRequests, { AdminUsername }, { AdminPassword, "q" })
    \/ SendLogin(MaxPasswordRequests, { AdminUsername }, { AdminPassword })
    \/ SendAdminChangePassword(MaxPasswordRequests, { 1 }, { AdminPassword, "q" })
    \/ SendChangePassword(MaxPasswordRequests, { 1 }, { AdminPassword, "q" })
    \/ SendAdminSetUserActive(MaxPasswordRequests, { 1 }, { AdminUserId })
    \/ DoRestart(MaxPasswordRequests)

SpecPassword == Init /\ [][NextPassword]_vars

(* the last successful password change of the account that an admin login names,
   when it was made by update_admin_password *)
LastChange(args) == auth_history.password_changes[args.username]

AfterChange(args) == args.username \in DOMAIN auth_history.password_changes

FailedChangeKeepsHash ==
    Handled("admin_change_password") /\ last'.status # 200 => users' = users

(* C18 as stated: after a successful change of the admin password from p to q,
   until the next successful change, every admin login with q succeeds and every
   admin login with p fails; a change attempted with a wrong current password
   leaves the stored hash as it was *)
C18_PasswordChange ==
    [][/\ Handled("admin_login") /\ AfterChange(last'.args)
          => /\ last'.args.password = LastChange(last'.args).new => last'.status = 200
             /\ HashPassword(last'.args.password) = LastChange(last'.args).old_hash
                => last'.status = 401
       /\ FailedChangeKeepsHash]_vars

(* C18, amended: the same until the next successful change or the next process
   start, logins with q succeeding while the admin account is active *)
C18_PasswordChangeUntilRestart ==
    [][/\ Handled("admin_login") /\ AfterChange(last'.args)
          /\ ~LastChange(last'.args).restarted
          => /\ /\ last'.args.password = LastChange(last'.args).new
                /\ \E u \in users : u.username = last'.args.username /\ u.is_active
                => last'.status = 200
             /\ HashPassword(last'.args.password) = LastChange(last'.args).old_hash
                => last'.status = 401
       /\ FailedChangeKeepsHash]_vars

(* an admin login with the new password q succeeded after the change, no process
   start since *)
C18_Witness ==
    /\ last.op = "admin_login" /\ last.status = 200
    /\ AfterChange(last.args)
    /\ last.args.password = LastChange(last.args).new
    /\ last.args.password # AdminPassword
    /\ ~LastChange(last.args).restarted

-----------------------------------------------------------------------------
(* Admin sessions: logins of the admin and of a created account, the admin-only
   endpoints, logout, and the expiry of login sessions *)

NextAdminSession ==
    \/ SendAdminLogin(MaxAdminRequests, { AdminUsername }, { AdminPassword })
    \/ SendLogin(MaxAdminRequests, { Eve.username }, { GeneratedPassword })
    \/ SendAdminRead(MaxAdminRequests, { "admin_check_session", "admin_stats" }, 0..3)
    \/ SendAdminCreateUser(MaxAdminRequests, { 1 }, Roles)
    \/ SendAdminSetUserActive(MaxAdminRequests, { 1 }, { AdminUserId })
    \/ SendAdminLogout(MaxAdminRequests, 0..1)
    \/ ExpireUserSessions
    \/ DoTick({ SessionTTLDays * SecondsPerDay })

SpecAdminSession == Init /\ [][NextAdminSession]_vars

(* the endpoints that answer only to an admin session *)
AdminOps == { "admin_check_session", "admin_stats", "admin_users", "admin_create_user",
              "admin_activate_user", "admin_deactivate_user" }

AdminRequest == nreq' = nreq + 1 /\ last'.op \in AdminOps

(* session_id is the id of a stored login session of an account that is not an admin *)
OfOtherRole(session_id) ==
    \E s \in user_sessions : /\ s.session_id = session_id
                              /\ \E u \in users : u.user_id = s.user_id /\ u.role # "admin"

RejectedAfterLogoutOrOtherRole ==
    AdminRequest
    => /\ last'.args.session_id \in auth_history.logouts => last'.status = 401
       /\ OfOtherRole(last'.args.session_id) => last'.status = 401

(* C19 as stated: a session id issued by a successful admin login is accepted by
   the admin-only endpoints for as long as it has not been logged out; after the
   logout of the id every admin request with it is rejected; the id of a session
   of an account that is not an admin is never accepted *)
C19_AdminSessionLifecycle ==
    [][/\ AdminRequest
          /\ last'.args.session_id \in auth_history.admin_logins \ auth_history.logouts
          => last'.status # 401
       /\ RejectedAfterLogoutOrOtherRole]_vars

(* C19, amended: accepted for as long as it has neither been logged out nor been
   removed by the expiry of login sessions, which removes no session younger than
   SessionTTLDays days *)
C19_AdminSessionUntilExpiry ==
    [][/\ AdminRequest
          /\ last'.args.session_id \in auth_history.admin_logins \ auth_history.logouts
          /\ (\E s \in user_sessions : s.session_id = last'.args.session_id)
          => last'.status # 401
       /\ \A s \in user_sessions :
             (\A x \in user_sessions' : x.session_id # s.session_id)
             => now - s.created_at >= SessionTTLDays * SecondsPerDay
       /\ RejectedAfterLogoutOrOtherRole]_vars

(* an admin endpoint has rejected a session id that an admin login had issued and
   an admin logout had ended *)
C19_Witness ==
    /\ last.op \in AdminOps /\ last.status = 401
    /\ last.args.session_id \in auth_history.admin_logins \cap auth_history.logouts
    /\ \E s \in user_sessions : s.session_id = last.args.session_id /\ ~s.is_active

-----------------------------------------------------------------------------
(* The restoration matcher: sessions with and without an owner account, created
   from two addresses, deactivated, and aged to the edge of the freshness window *)

NextMatcher ==
    \/ SendInitSession(MaxMatcherRequests, { Alice }, { "p1" }, { Here }, { FALSE }, { TRUE })
    \/ SendConnect(MaxMatcherRequests, { Alice }, { "p1" }, { Here, There }, { TRUE })
    \/ DoDeactivate(MaxMatcherRequests, 1..2)
    \/ \E ip_address \in { Here, There }, user_id \in PlatformUsers \cup { NoUser } :
          Request(MaxMatcherRequests,
                  FindExisting(<< "m" >>, ip_address, Alice[1], Alice[2], user_id))
    \/ DoTick({ Window - 1, 1, 2 })

SpecMatcher == Init /\ [][NextMatcher]_vars

(* the sessions with the tenant key and the device fingerprint of a matcher call *)
SameDevice(args) ==
    { s \in sessions :
        /\ s.user_identifier = GenerateUserIdentifier(args.username, args.erpnext_url)
        /\ s.browser_fingerprint = GenerateBrowserFingerprint(args.user_agent, args.ip_address) }

(* the sessions with the owner account and the endpoint of a matcher call *)
SameOwner(args) ==
    IF args.user_id = NoUser THEN {}
    ELSE { s \in sessions : s.user_id = args.user_id /\ s.erpnext_url = args.erpnext_url }

Fresh(s) == s.is_active /\ s.last_accessed >= now - Window

(* sid is the id of a session of set that is fresh and that no fresh session of
   set was accessed after *)
MostRecentFresh(sid, set) ==
    \E s \in set : /\ s.session_id = sid /\ Fresh(s)
                    /\ \A x \in set : Fresh(x) => x.last_accessed <= s.last_accessed

(* C21: with the window of 30 days, find_existing_session never returns a session
   last accessed before now minus the window (one second before it included), and
   returns a session last accessed at now minus the window or later (exactly at
   it and one second after it included) when the session is active and is the only
   one with the tenant key and the device fingerprint of the call *)
C21_WindowBoundary ==
    [][Handled("find_existing_session")
       => \A s \in sessions :
             /\ s.last_accessed <= now - Window - 1 => last'.candidate # s.session_id
             /\ /\ s.is_active
                /\ s.last_accessed >= now - Window
                /\ SameDevice(last'.args) = { s }
                /\ last'.args.user_id = NoUser
                => last'.candidate = s.session_id]_vars

(* the matcher returned a session that was last accessed exactly 30 days before *)
C21_Witness ==
    /\ last.op = "find_existing_session"
    /\ \E s \in sessions : /\ s.session_id = last.candidate
                           /\ s.last_accessed = now - Window
                           /\ now = last.time

(* C22: find_existing_session returns a fresh active session of the owner account
   and endpoint with the greatest last_accessed when an owner account is given and
   there is one; otherwise a fresh active session of the tenant key and device
   fingerprint with the greatest last_accessed; none exactly when neither search
   has a candidate; and it leaves the store as it was *)
C22_PreferenceOrder ==
    [][Handled("find_existing_session")
       => LET owned == \E s \in SameOwner(last'.args) : Fresh(s)
              known == \E s \in SameDevice(last'.args) : Fresh(s)
          IN  /\ owned => MostRecentFresh(last'.candidate, SameOwner(last'.args))
              /\ ~owned /\ known => MostRecentFresh(last'.candidate, SameDevice(last'.args))
              /\ last'.candidate = None <=> ~owned /\ ~known
              /\ sessions' = sessions /\ messages' = messages
              /\ active_agents' = active_agents]_vars

(* the matcher was called with an owner account and returned a session of that
   account while another fresh session has the device of the call *)
C22_Witness ==
    /\ last.op = "find_existing_session" /\ last.candidate # None
    /\ last.args.user_id # NoUser
    /\ \E s \in SameOwner(last.args) : s.session_id = last.candidate
    /\ \E s \in SameDevice(last.args) : Fresh(s) /\ s.session_id # last.candidate

-----------------------------------------------------------------------------
(* Chat requests handled step by step by two worker threads, beside the history
   endpoint and the sweep *)

NextChatSteps ==
    \/ SendInitSession(MaxStepRequests, { Alice }, { "p1" }, { Here }, { TRUE }, { TRUE })
    \/ \E t \in Threads : Request(MaxStepRequests, ChatCheck(t, Here, 1, Valid))
    \/ \E t \in Threads, agent_ok \in BOOLEAN : ChatAgent(t, agent_ok)
    \/ \E t \in Threads : ChatStore(t)
    \/ SendGetChatHistory(MaxStepRequests, { 1 }, { 4 })
    \/ \E t \in Threads : Request(MaxStepRequests, SweepFind(t, FreshnessDays))
    \/ \E t \in Threads : SweepDeleteMessages(t)
    \/ \E t \in Threads : SweepDeleteSessions(t)
    \/ DoTick({ Window + 1 })

SpecChatSteps == Init /\ [][NextChatSteps]_vars

(* C23: a history response for an active session (a request step that starts no
   chat call of a thread) changes no state, and each of its
   entries that carries an assistant response carries the response stored by the
   chat call that stored the entry's user message *)
C23_HistoryPairsOwnResponse ==
    [][Handled("get_chat_history") /\ req' = req /\ last'.status = 200
       => /\ \A i \in 1..Len(last'.history) :
                last'.history[i].ai_call \in { None, last'.history[i].user_call }
          /\ messages' = messages /\ sessions' = sessions
          /\ active_agents' = active_agents]_vars

(* C25: every stored message names a session record of the store, and a chat call
   that is over has stored its user message and its assistant message or neither *)
C25_MessagesOfStoredSessions ==
    /\ \A i \in 1..Len(messages) : messages[i].session_id \in SessionIds
    /\ \A i \in 1..Len(messages) :
          (\A t \in Threads : req[t].op = "chat" => req[t].call # messages[i].call)
          => \E j \in 1..Len(messages) : /\ messages[j].call = messages[i].call
                                         /\ messages[j].message_type # messages[i].message_type

-----------------------------------------------------------------------------
(* Calls of the external API by the agents of two threads, with retries.  A thread
   that is in the loop goes on: the client call returns or raises, and the sleep
   ends *)

NextRetry ==
    \/ \E t \in Threads, operation \in { "get_list", "insert", "unknown" } :
          Request(MaxRetryRequests, SafeCallBegin(t, operation))
    \/ \E t \in Threads, ok \in BOOLEAN : SafeCallAttempt(t, ok)

SpecRetry ==
    /\ Init /\ [][NextRetry]_vars
    /\ \A t \in Threads : WF_vars(\E ok \in BOOLEAN : SafeCallAttempt(t, ok))

(* the failures before a success, or all the failures: n times FALSE *)
Failures(n) == [ i \in 1..n |-> FALSE ]

(* the sleeps after n failures: 1 second, then 2 seconds *)
Sleeps(n) == SubSeq(<< 1, 2 >>, 1, n)

(* what a call of _safe_erpnext_call that is over did *)
RetryOutcome ==
    last.op = "_safe_erpnext_call"
    => /\ Len(last.outcomes) <= 3
       /\ ~last.raised
          => /\ last.outcomes = Append(Failures(Len(last.outcomes) - 1), TRUE)
             /\ last.sleeps = Sleeps(Len(last.outcomes) - 1)
       /\ last.raised
          => /\ last.outcomes \in { Failures(3), << >> }
             /\ last.sleeps = << 1, 2 >>

(* C24: _safe_erpnext_call calls the client at most 3 times, returns at the first
   call that succeeds, sleeps 1 second after the first failure and 2 seconds
   after the second, raises after the third failure, and every call ends *)
C24_RetryBounded ==
    /\ []RetryOutcome
    /\ \A t \in Threads : (req[t].op = "_safe_erpnext_call") ~> (req[t] = Idle)

(* a call returned the result of its third attempt, after sleeping 1 and 2 seconds *)
C24_Witness ==
    /\ last.op = "_safe_erpnext_call" /\ ~last.raised
    /\ last.outcomes = << FALSE, FALSE, TRUE >> /\ last.sleeps = << 1, 2 >>

-----------------------------------------------------------------------------
(* Login sessions of a deactivated account *)

(* session_id is the id of a stored login session of an account that deactivate_user
   has made inactive and activate_user has not made active again *)
OfInactiveAccount(session_id) ==
    \E s \in user_sessions : /\ s.session_id = session_id
                              /\ \E u \in users : u.user_id = s.user_id /\ ~u.is_active

(* C27: a request to an admin-only endpoint that carries the id of a login session of
   an account that is inactive when the request arrives is rejected with 401 *)
C27_InactiveAccountRejected ==
    [][AdminRequest /\ OfInactiveAccount(last'.args.session_id)
       => last'.status = 401]_vars

-----------------------------------------------------------------------------
(* Frames of failed requests, and the cache against the store *)

(* C28: an init_session request answered with an error (400 for a missing field,
   401 for a refused session token, 500 for an agent that cannot be built) leaves
   the session records as they were: none is created, no last_accessed changes *)
C28_FailedInitKeepsStore ==
    [][Handled("init_session") /\ last'.status \in { 400, 401, 500 }
       => sessions' = sessions]_vars

(* C29: every key of active_agents is the id of an active session record *)
C29_AgentsOfActiveSessions ==
    \A sid \in DOMAIN active_agents : ActiveRecord(sid)

(* the timestamps of the address that count against the budget of the chat limiter *)
Budget(limits, client_ip) ==
    IF client_ip \in DOMAIN limits
    THEN Len(RecentRequests(limits[client_ip], ChatWindow))
    ELSE 0

(* C30: a chat request answered 429 leaves the timestamp lists as they were, and a
   chat request answered 400, 404 or 410 after the limiter admitted it adds nothing
   to the timestamps that count for its address *)
C30_OnlyServedChatsCount ==
    [][Handled("chat")
       => /\ last'.status = 429 => rate_limits' = rate_limits
          /\ last'.status \in { 400, 404, 410 }
             => Budget(rate_limits', last'.args.client_ip)
                = Budget(rate_limits, last'.args.client_ip)]_vars

-----------------------------------------------------------------------------
(* init_session with restore, the same caller in two worker threads: each thread
   reads the store, then writes it, then builds its agent *)

NextInitRace ==
    \/ \E t \in Threads :
          Request(MaxInitRaceRequests,
                  InitFind(t, Alice[1], Alice[2], "p1", << "m" >>, Here, TRUE))
    \/ \E t \in Threads : InitStore(t)
    \/ \E t \in Threads, agent_ok \in BOOLEAN : InitEnd(t, agent_ok)
    \/ SendClearSession(MaxInitRaceRequests, { 1 })
    \/ DoTick({ 1 })

SpecInitRace == Init /\ [][NextInitRace]_vars

(* C26: init_session calls with restore=true of one caller (same endpoint,
   username, secrets, device string and address), however they run beside each
   other, leave at most one active session record for the caller's tenant key,
   device fingerprint and credentials *)
C26_OneRecordPerCaller ==
    \A s1, s2 \in sessions :
        /\ s1.is_active /\ s2.is_active
        /\ s1.user_identifier = s2.user_identifier
        /\ s1.browser_fingerprint = s2.browser_fingerprint
        /\ s1.password_hash = s2.password_hash
        /\ s1.google_api_key_hash = s2.google_api_key_hash
        => s1 = s2

-----------------------------------------------------------------------------
(* Deactivated sessions: init_session, chat and the history of a session that the
   store deactivates, sweeps or clears *)

NextInactive ==
    \/ SendInitSession(MaxInactiveRequests, { Alice }, { "p1" }, { Here }, { TRUE }, { TRUE })
    \/ SendChat(MaxInactiveRequests, { Here }, 1..2, { Valid }, { TRUE })
    \/ SendGetChatHistory(MaxInactiveRequests, { 1 }, { 20 })
    \/ DoDeactivate(MaxInactiveRequests, 1..2)
    \/ DoCleanup(MaxInactiveRequests, { FreshnessDays })
    \/ DoRestart(MaxInactiveRequests)
    \/ DoTick({ 1 })

SpecInactive == Init /\ [][NextInactive]_vars

-----------------------------------------------------------------------------
(* The sweep beside normal traffic: the three store calls of
   cleanup_expired_sessions with init_session and chat between them *)

NextSweepRace ==
    \/ SendInitSession(MaxRaceRequests, { Alice }, { "p1" }, { Here }, { TRUE }, { TRUE })
    \/ SendChat(MaxRaceRequests, { Here }, { 1 }, { Valid }, { TRUE })
    \/ \E t \in Threads : Request(MaxRaceRequests, SweepFind(t, FreshnessDays))
    \/ \E t \in Threads : SweepDeleteMessages(t)
    \/ \E t \in Threads : SweepDeleteSessions(t)
    \/ DoTick({ SecondsPerDay, Window })

SpecSweepRace == Init /\ [][NextSweepRace]_vars

(* C11: whatever requests run between the steps of cleanup_expired_sessions, a step
   of the sweep that deletes records leaves in the store every session that is
   active and was accessed within the freshness window at that moment, with all
   its messages *)
C11_SweepBesideTraffic ==
    [][\A t \in Threads :
          req[t].op = "cleanup_expired_sessions" /\ req'[t] # req[t]
          => \A s \in sessions :
                s.is_active /\ s.last_accessed >= now - req[t].days * SecondsPerDay
                => /\ s \in sessions'
                   /\ MessagesOf(messages', s.session_id) = MessagesOf(messages, s.session_id)]_vars

-----------------------------------------------------------------------------
(* Validation: init_session and chat with well-formed and malformed requests, enough
   of them from one address to reach the rate limiter (the later requests all lack
   the session id) *)

NextValidation ==
    \/ SendInitSession(MaxValidationInits, { Alice }, { "p1" }, { Here }, { TRUE }, BOOLEAN)
    \/ SendInvalidInitSession(MaxValidationChats)
    \/ SendChat(MaxValidationChats, { Here }, 0..1, Texts, { TRUE })
    \/ SendChat(MaxValidationRequests, { Here }, { 0 }, { Valid }, { TRUE })

SpecValidation == Init /\ [][NextValidation]_vars

(* C16: a request that fails validation is answered 400 and changes nothing in the
   store: an init_session request with no endpoint URL or no username, and a chat
   request that the rate limiter let through with no session id, with no text, or
   with a text of more than 2000 characters once stripped, leave the session
   records, the chat messages and the agent cache as they were; the over-long text
   is not cut to fit and stored *)
MissingInitField(args) == args.erpnext_url = << >> \/ args.username = << >>

InvalidChat(args) ==
    \/ args.session_id = None
    \/ args.text.pad + args.text.body = 0
    \/ args.text.body > MaxTextLen

StoreUntouched ==
    /\ sessions' = sessions
    /\ messages' = messages
    /\ active_agents' = active_agents

C16_ValidationBeforeStore ==
    [][/\ Handled("init_session") /\ MissingInitField(last'.args)
          => last'.status = 400 /\ StoreUntouched
       /\ Handled("chat") /\ InvalidChat(last'.args)
          => /\ StoreUntouched
             /\ last'.status \in { 400, 429 }
             /\ last'.status = 429
                => ~RateLimitPasses(rate_limits, last'.args.client_ip, ChatLimit, ChatWindow)]_vars

(* an over-long text was sent to a session that is active and has a live agent, and
   was answered 400 with no message stored *)
C16_Witness ==
    /\ last.op = "chat" /\ last.status = 400
    /\ last.args.text.body > MaxTextLen
    /\ ActiveRecord(last.args.session_id)
    /\ last.args.session_id \in DOMAIN active_agents
    /\ \A i \in 1..Len(messages) : messages[i].content # MaxTextLen

(* C20: session ids are unique: no two session records of the store have the same
   session_id, and the id of a record that enters the store was never returned by
   create_session before, whether the earlier record is still stored, was swept, or
   was removed by clear_all_sessions when the process started again *)
DistinctSessionIds ==
    \A s \in sessions, t \in sessions : s.session_id = t.session_id => s = t

C20_SessionIdUniqueness ==
    /\ []DistinctSessionIds
    /\ [][\A s \in sessions' : s.session_id \notin SessionIds => s.session_id \notin issued]_vars

(* a session was created after every record of the earlier sessions had left the store *)
C20_Witness ==
    /\ last.op \in { "init_session", "user_connect_mocxha", "user_auto_connect_mocxha" }
    /\ last.status = 200 /\ ~last.restored
    /\ SessionIds = { last.session_id }
    /\ issued \ SessionIds # {}

====
